---- MODULE Spec2Model ----
(***************************************************************************)
(* Ticket PDF generation (TicketPdfService): column fitting, text wrapping *)
(* and clipping, list/detail pagination and footer stamping.               *)
(*                                                                         *)
(* Widths of the column layout are exact rationals, kept as integers in    *)
(* units of 1/Unit.  Vertical page coordinates are kept in units of 1/100. *)
(***************************************************************************)
EXTENDS Integers, Sequences, FiniteSets, TLC

VARIABLES
    \* fitColumnsToWidth
    fpc,          \* position inside fitColumnsToWidth
    targetWidth,  \* argument targetWidth, in 1/Unit
    cols,         \* local cols: sequence of [key, w], w in 1/Unit
    \* wrapText / clipToWidth
    tpc,          \* "input", "wrapped" or "clipped"
    text,         \* argument text: sequence of characters
    font,         \* argument font: name of a glyph-metrics table
    maxWidth,     \* argument maxWidth
    lines,        \* result of wrapText
    clipped,      \* result of clipToWidth
    \* downloadTicketsPdf
    pc,           \* position inside downloadTicketPdf / downloadTicketsPdf / build*Pdf
    call,         \* the caller's call: [entry, layout, filename]
    optLayout,    \* opts.layout: "none" (undefined), "list" or "detail"
    optFilename,  \* opts.filename: NoFilename (undefined) or a file name
    tickets,      \* argument tickets: sequence of ticket numbers
    assets,       \* [font, logo, stamp]: what tryLoadTtf / tryLoadImage returned
    pages,        \* pdfDoc's pages, in order
    y,            \* list mode: vertical cursor, in 1/100
    index,        \* loop index over tickets (rows placed / detail pages made)
    footIdx,      \* list mode: loop index i of the footer loop
    loadFailed,   \* the assets whose fetch or embedding failed
    error,        \* what the invocation raised to its caller: "none", "asset", "save"
    delivered,    \* blobs handed to downloadBlob
    invs,         \* two invocations of downloadTicketsPdf in flight: their locals
    docs,         \* the PDFDocument objects created so far, each a page sequence
    blobs,        \* what the two invocations handed to downloadBlob
    exporting,       \* AdminImport.exporting
    importedTickets, \* AdminImport.importedTickets().length
    ticket,          \* TicketDetail.ticket() is not null
    loadError,       \* TicketDetail.loadError, the text shown on the page
    adminShown,      \* AdminImport.successMessage / errors, as shown on the page
    inFlight,        \* the builds each export action has started and not yet settled
    triggered,       \* how often each export action was triggered
    settled,         \* how the last settled build of each action ended
    unhandled,       \* rejections no handler of the shell received
    bpc,          \* position inside the body card of a detail page
    body,         \* String(t.body ?? '')
    bodyFont,     \* the font of the page
    innerW,       \* the width available to a body line
    bodyLines,    \* wrapText(body, font, 11, innerW)
    lineIdx,      \* how many lines the loop has passed
    yy,           \* the baseline of the next body line
    drawn,        \* the page.drawText calls of the body card: text and baseline
    cpc,             \* position of the delimited-text export: "input", "escaped", "exported"
    field,           \* argument v of csvEscape: a sequence of characters
    escapedField,    \* result of csvEscape
    csvTickets,      \* argument tickets of downloadTickets
    csvRows,         \* local rows of downloadTickets
    csvContent,      \* the content handed to downloadText
    lpc,             \* position of drawLabelValueBlock: "input", "done"
    value,           \* p.value: a sequence of characters, or null
    labelFont,       \* argument font
    valueW,          \* p.w, the width available to the value
    maxLines,        \* p.maxLines
    valueLines,      \* local lines: wrapText(raw, font, valueSize, maxValueW)
    shownLines,      \* the value lines drawn by page.drawText, in order
    storeTickets,    \* TicketStore state().tickets
    initialized,     \* TicketStore state().initialized
    lsStored,        \* localStorage holds a ticket array under LS_KEY
    lsTickets,       \* that array, as coerceTicketArray reads it
    seed,            \* the tickets of /assets/tickets.json, after coerceTicketArray
    pendingFetch,    \* initOnce calls suspended on the seed fetch (line 225)
    written,         \* patchState has run at least once
    lastKind,        \* history: the last store operation
    prevTickets,     \* history: state().tickets before that operation
    lastCreated,     \* history: the tickets it created, in input order
    ipc,             \* position of AdminImport.runImport: "ready", "initOnce", "importCsv", "done"
    selectedFile,    \* AdminImport.selectedFile, as Papa.parse reads it
    busy,            \* AdminImport.busy()
    errors,          \* AdminImport.errors()
    successMessage,  \* AdminImport.successMessage(): "" or the number of added tickets
    importedList,    \* AdminImport.importedTickets() as runImport sets it
    beforeNos,       \* runImport local beforeNos
    importResult,    \* runImport local res, the result of importCsv
    loggedIn,        \* AuthService.loggedIn
    currentRole,     \* AuthService.currentRole
    pendingLogins,   \* the credentials of the login calls suspended on users.json
    loginResult,     \* history: what the last settled login call returned
    currentUrl,      \* the URL the router shows
    lastNav          \* history: the last navigation, the login state it met and its outcome

fitVars   == <<fpc, targetWidth, cols>>
textVars  == <<tpc, text, font, maxWidth, lines, clipped>>
optsVars  == <<call, optLayout, optFilename, tickets>>
buildVars == <<pc, optsVars, assets, pages, y, index, footIdx, loadFailed, error, delivered>>
twoVars   == <<invs, docs, blobs>>
shellVars == <<exporting, importedTickets, ticket, loadError, adminShown,
               inFlight, triggered, settled, unhandled>>
bodyVars  == <<bpc, body, bodyFont, innerW, bodyLines, lineIdx, yy, drawn>>
csvVars   == <<cpc, field, escapedField, csvTickets, csvRows, csvContent>>
labelVars == <<lpc, value, labelFont, valueW, maxLines, valueLines, shownLines>>
storeVars == <<storeTickets, initialized, lsStored, lsTickets, seed, pendingFetch, written, lastKind, prevTickets, lastCreated>>
importVars == <<ipc, selectedFile, busy, errors, successMessage, importedList, beforeNos, importResult>>
guardVars == <<loggedIn, currentRole, pendingLogins, loginResult, currentUrl, lastNav>>
vars      == <<fitVars, textVars, buildVars, twoVars, shellVars, bodyVars, csvVars, labelVars, storeVars, importVars, guardVars>>

\* what the steps of each part leave alone
notFit    == <<textVars, buildVars, twoVars, shellVars, bodyVars, csvVars, labelVars, storeVars, importVars, guardVars>>
notText   == <<fitVars, buildVars, twoVars, shellVars, bodyVars, csvVars, labelVars, storeVars, importVars, guardVars>>
outside   == <<fitVars, textVars, twoVars, shellVars, bodyVars, csvVars, labelVars, storeVars, importVars, guardVars>>
notTwo    == <<fitVars, textVars, buildVars, shellVars, bodyVars, csvVars, labelVars, storeVars, importVars, guardVars>>
notShell  == <<fitVars, textVars, buildVars, twoVars, bodyVars, csvVars, labelVars, storeVars, importVars, guardVars>>
notBody   == <<fitVars, textVars, buildVars, twoVars, shellVars, csvVars, labelVars, storeVars, importVars, guardVars>>
notCsv    == <<fitVars, textVars, buildVars, twoVars, shellVars, bodyVars, labelVars, storeVars, importVars, guardVars>>
notLabel  == <<fitVars, textVars, buildVars, twoVars, shellVars, bodyVars, csvVars, storeVars, importVars, guardVars>>
notStore  == <<fitVars, textVars, buildVars, twoVars, shellVars, bodyVars, csvVars, labelVars, importVars, guardVars>>
notImport == <<fitVars, textVars, buildVars, twoVars, shellVars, bodyVars, csvVars, labelVars, guardVars>>
notGuard  == <<fitVars, textVars, buildVars, twoVars, shellVars, bodyVars, csvVars, labelVars, storeVars, importVars>>

Max(a, b) == IF a >= b THEN a ELSE b
Min(a, b) == IF a <= b THEN a ELSE b

(***************************************************************************)
(* Column Layout Engine: fitColumnsToWidth                                 *)
(***************************************************************************)

\* Target widths are drawn from TargetLo .. TargetHi in steps of 1/Res.
Res      == 100
TargetLo == 400
TargetHi == 640

\* One width unit is Unit model units.  91 is the total slack of the base
\* columns above their minimums once the subject is at 120, so the
\* proportional portions of phase 2 are integers.
Unit == 91 * Res

\* A target in 1/Res units, as a width in 1/Unit.
TargetOf(n) == n * 91

colsBase ==
    << [key |-> "no",           w |-> 38  * Unit],
       [key |-> "subject",      w |-> 210 * Unit],
       [key |-> "customerName", w |-> 95  * Unit],
       [key |-> "assignee",     w |-> 70  * Unit],
       [key |-> "status",       w |-> 70  * Unit],
       [key |-> "priority",     w |-> 50  * Unit],
       [key |-> "createdAt",    w |-> 90  * Unit] >>

minSubject      == 120
minSubjectAgain == 110
driftFloor      == 80
defaultMin      == 40

\* mins[c.key] ?? 40
mins(key) ==
    CASE key = "no"           -> 32  * Unit
      [] key = "subject"      -> 110 * Unit
      [] key = "customerName" -> 70  * Unit
      [] key = "assignee"     -> 55  * Unit
      [] key = "status"       -> 60  * Unit
      [] key = "priority"     -> 45  * Unit
      [] key = "createdAt"    -> 70  * Unit
      [] OTHER                -> defaultMin * Unit

RECURSIVE SumW(_)
\* cols.reduce((a, c) => a + c.w, 0)
SumW(cs) == IF cs = <<>> THEN 0 ELSE Head(cs).w + SumW(Tail(cs))

\* cols.find((c) => c.key === 'subject'): its position, 0 when absent
FindSubject(cs) ==
    IF \E i \in 1..Len(cs) : cs[i].key = "subject"
    THEN CHOOSE i \in 1..Len(cs) :
            /\ cs[i].key = "subject"
            /\ \A j \in 1..(i - 1) : cs[j].key # "subject"
    ELSE 0

SetW(cs, i, w) == [cs EXCEPT ![i].w = w]

\* Math.round: nearest integer, halves upward
Round(w) == ((2 * w + Unit) \div (2 * Unit)) * Unit

\* 1) cut the subject column first
FitPhase1(cs, target) ==
    LET s == FindSubject(cs) IN
    IF s = 0 THEN cs
    ELSE LET overflow == SumW(cs) - target IN
         IF overflow > 0
         THEN LET reducible == Max(0, cs[s].w - minSubject * Unit)
                  cut       == Min(reducible, overflow)
              IN  SetW(cs, s, cs[s].w - cut)
         ELSE cs

RECURSIVE Gcd(_, _)
Gcd(a, b) == IF b = 0 THEN a ELSE Gcd(b, a % b)

\* (a / b) * c on exact rationals, rounded down to the model unit
MulDiv(a, b, c) == LET g == Gcd(a, b) IN ((a \div g) * c) \div (b \div g)

\* r.reducible of each column
Reducible(c) == Max(0, c.w - mins(c.key))

RECURSIVE SumReducible(_)
SumReducible(cs) ==
    IF cs = <<>> THEN 0 ELSE Reducible(Head(cs)) + SumReducible(Tail(cs))

\* the proportional shrink of every column with slack
ShrinkAll(cs, overflow2) ==
    LET totalReducible == SumReducible(cs) IN
    IF totalReducible > 0
    THEN LET need == Min(overflow2, totalReducible) IN
         [i \in 1..Len(cs) |->
            IF Reducible(cs[i]) <= 0 THEN cs[i]
            ELSE LET portion == MulDiv(Reducible(cs[i]), totalReducible, need)
                 IN  [cs[i] EXCEPT !.w = Max(mins(cs[i].key), cs[i].w - portion)]]
    ELSE cs

\* 2) still overflowing: shrink everything, keeping the minimums
FitPhase2(cs, target) ==
    LET overflow2 == SumW(cs) - target IN
    IF overflow2 > 0
    THEN LET shrunk == ShrinkAll(cs, overflow2)
             rest   == SumW(shrunk) - target
             s      == FindSubject(cs)
         IN  IF rest > 0 /\ s # 0
             THEN SetW(shrunk, s, Max(minSubjectAgain * Unit, shrunk[s].w - rest))
             ELSE shrunk
    ELSE cs

\* for (const c of cols) c.w = Math.round(c.w)
RoundAll(cs) == [i \in 1..Len(cs) |-> [cs[i] EXCEPT !.w = Round(cs[i].w)]]

\* FixDrift with the drift added instead of taken away
FixDriftAdded(cs, target) ==
    LET diff == SumW(cs) - target IN
    IF diff # 0
    THEN LET f == FindSubject(cs)
             s == IF f # 0 THEN f ELSE 1
         IN  SetW(cs, s, Max(driftFloor * Unit, cs[s].w + diff))
    ELSE cs

\* the drift of the rounded sum goes to the subject column (or cols[0])
FixDrift(cs, target) ==
    LET diff == SumW(cs) - target IN
    IF diff # 0
    THEN LET f == FindSubject(cs)
             s == IF f # 0 THEN f ELSE 1
         IN  SetW(cs, s, Max(driftFloor * Unit, cs[s].w - diff))
    ELSE cs

\* 3) round, then put the drift on the subject column
FitPhase3(cs, target) == FixDrift(RoundAll(cs), target)

fitColumnsToWidth(base, target) ==
    FitPhase3(FitPhase2(FitPhase1(base, target), target), target)

FitInit ==
    /\ fpc = "phase1"
    /\ targetWidth \in {TargetOf(n) : n \in (TargetLo * Res)..(TargetHi * Res)}
    /\ cols = colsBase

DoPhase1 ==
    /\ fpc = "phase1"
    /\ cols' = FitPhase1(cols, targetWidth)
    /\ fpc' = "phase2"
    /\ UNCHANGED <<targetWidth, notFit>>

DoPhase2 ==
    /\ fpc = "phase2"
    /\ cols' = FitPhase2(cols, targetWidth)
    /\ fpc' = "phase3"
    /\ UNCHANGED <<targetWidth, notFit>>

DoPhase3 ==
    /\ fpc = "phase3"
    /\ cols' = FitPhase3(cols, targetWidth)
    /\ fpc' = "done"
    /\ UNCHANGED <<targetWidth, notFit>>

(***************************************************************************)
(* Text Layout Engine: wrapText and clipToWidth                            *)
(***************************************************************************)

MaxLen    == 4
MaxBudget == 6

CR       == "CR"
LF       == "LF"
Ellipsis == "..."
Chars    == {"a", "b", CR, LF}

\* text ?? '' : a null / undefined argument
Null == <<"null">>

Fonts == {"mono", "prop", "wide"}

\* the glyph-metrics table of a font at the size drawn
GlyphW(f, ch) ==
    CASE f = "mono" -> 1
      [] f = "prop" -> (CASE ch = "a" -> 1 [] ch = "b" -> 2
                          [] ch = Ellipsis -> 2 [] OTHER -> 0)
      [] f = "wide" -> (CASE ch = "a" -> 2 [] ch = "b" -> 3
                          [] ch = CR -> 1 [] ch = Ellipsis -> 1 [] OTHER -> 0)

RECURSIVE widthOfTextAtSize(_, _)
\* font.widthOfTextAtSize(text, size): the sum of the glyph advances
widthOfTextAtSize(f, s) ==
    IF s = <<>> THEN 0 ELSE GlyphW(f, Head(s)) + widthOfTextAtSize(f, Tail(s))

\* Fits letting one unit too many through
FitsLoose(w, budget) == w <= budget + 1

\* font.widthOfTextAtSize(x, size) <= maxWidth
Fits(w, budget) == w <= budget

\* String(text ?? '')
StringOf(t) == IF t = Null THEN <<>> ELSE t

RECURSIVE ReplaceCRLF(_)
\* src.replace(/\r\n/g, '\n')
ReplaceCRLF(s) ==
    IF s = <<>> THEN <<>>
    ELSE IF Len(s) >= 2 /\ s[1] = CR /\ s[2] = LF
         THEN <<LF>> \o ReplaceCRLF(SubSeq(s, 3, Len(s)))
         ELSE <<Head(s)>> \o ReplaceCRLF(Tail(s))

RECURSIVE SplitLF(_, _)
\* .split('\n'): cur is the paragraph being read
SplitLF(s, cur) ==
    IF s = <<>> THEN <<cur>>
    ELSE IF Head(s) = LF
         THEN <<cur>> \o SplitLF(Tail(s), <<>>)
         ELSE SplitLF(Tail(s), Append(cur, Head(s)))

\* PushLine without its test: out.push(line)
PushLineAlways(out, line) == Append(out, line)

\* if (line) out.push(line)
PushLine(out, line) == IF line # <<>> THEN Append(out, line) ELSE out

RECURSIVE WrapPara(_, _, _, _, _)
\* the character loop of one paragraph, then the trailing push
WrapPara(chs, line, out, f, budget) ==
    IF chs = <<>> THEN PushLine(out, line)
    ELSE LET ch   == Head(chs)
             next == Append(line, ch)
         IN  IF Fits(widthOfTextAtSize(f, next), budget)
             THEN WrapPara(Tail(chs), next, out, f, budget)
             ELSE WrapPara(Tail(chs), <<ch>>, PushLine(out, line), f, budget)

RECURSIVE WrapParas(_, _, _, _)
\* for (const para of paragraphs)
WrapParas(paras, out, f, budget) ==
    IF paras = <<>> THEN out
    ELSE LET para == Head(paras) IN
         IF para = <<>>
         THEN WrapParas(Tail(paras), Append(out, <<>>), f, budget)
         ELSE WrapParas(Tail(paras), WrapPara(para, <<>>, out, f, budget), f, budget)

wrapText(t, f, budget) ==
    LET src == StringOf(t) IN
    IF src = <<>> THEN << <<>> >>
    ELSE WrapParas(SplitLF(ReplaceCRLF(src), <<>>), <<>>, f, budget)

\* s.slice(0, n)
Slice(s, n) == SubSeq(s, 1, n)

\* Math.ceil((lo + hi) / 2)
Mid(lo, hi) == (lo + hi + 1) \div 2

\* LowerHi stepping down too far
LowerHiTwice(mid) == mid - 2

\* hi = mid - 1
LowerHi(mid) == mid - 1

RECURSIVE ClipSearch(_, _, _, _, _)
\* while (lo < hi) { ... }: the value of lo when the loop ends
ClipSearch(s, f, budget, lo, hi) ==
    IF lo < hi
    THEN LET mid       == Mid(lo, hi)
             candidate == Append(Slice(s, mid), Ellipsis)
         IN  IF Fits(widthOfTextAtSize(f, candidate), budget)
             THEN ClipSearch(s, f, budget, mid, hi)
             ELSE ClipSearch(s, f, budget, lo, LowerHi(mid))
    ELSE lo

\* clipToWidth with the search starting from a one-character prefix
clipToWidthFromOne(t, f, budget) ==
    LET s == StringOf(t) IN
    IF s = <<>> THEN <<>>
    ELSE IF Fits(widthOfTextAtSize(f, s), budget) THEN s
    ELSE Append(Slice(s, ClipSearch(s, f, budget, 1, Len(s))), Ellipsis)

clipToWidth(t, f, budget) ==
    LET s == StringOf(t) IN
    IF s = <<>> THEN <<>>
    ELSE IF Fits(widthOfTextAtSize(f, s), budget) THEN s
    ELSE Append(Slice(s, ClipSearch(s, f, budget, 0, Len(s))), Ellipsis)

RECURSIVE StringsOfLen(_)
StringsOfLen(n) ==
    IF n = 0 THEN {<<>>}
    ELSE {Append(s, c) : s \in StringsOfLen(n - 1), c \in Chars}

Texts == UNION {StringsOfLen(n) : n \in 0..MaxLen} \cup {Null}

TextInit ==
    /\ tpc = "input"
    /\ text \in Texts
    /\ font \in Fonts
    /\ maxWidth \in 0..MaxBudget
    /\ lines = <<>>
    /\ clipped = <<>>

DoWrap ==
    /\ tpc = "input"
    /\ lines' = wrapText(text, font, maxWidth)
    /\ tpc' = "wrapped"
    /\ UNCHANGED <<text, font, maxWidth, clipped, notText>>

DoClip ==
    /\ tpc = "input"
    /\ clipped' = clipToWidth(text, font, maxWidth)
    /\ tpc' = "clipped"
    /\ UNCHANGED <<text, font, maxWidth, lines, notText>>

(***************************************************************************)
(* Document Builder and Page Pagination Controller: downloadTicketsPdf,    *)
(* buildListPdf, buildDetailPdf                                            *)
(***************************************************************************)

MaxRecords == 75

\* page geometry; vertical coordinates are in 1/100
A4h          == 84189
marginTop    == 48
marginBottom == 52
headerH      == 72
headerGap    == 12
rowH         == 18

\* const layout = opts.layout ?? 'list'
LayoutOf(opt) == IF opt = "none" THEN "list" ELSE opt

\* opts.filename === undefined
NoFilename == <<>>

\* a file name supplied by the caller
GivenFilename == <<"given.pdf">>

\* `tickets-${date}-${layout}.pdf`
FilenameOf(opt) == <<"tickets", "date", LayoutOf(opt)>>

\* const filename = opts.filename ?? `tickets-${date}-${layout}.pdf`
FilenameFor(fn, opt) == IF fn = NoFilename THEN FilenameOf(opt) ELSE fn

\* opts.filename ?? `ticket-${no || 'x'}-${date}.pdf`
TicketFilename(fn, no) ==
    IF fn = NoFilename THEN <<"ticket", ToString(no), "date">> ELSE fn

\* TicketLayout with the spread after the override: { layout: 'detail', ...opts }
TicketLayoutCaller(layout) == IF layout = "none" THEN "detail" ELSE layout

\* { ...opts, filename, layout: 'detail' }
TicketLayout(layout) == "detail"

\* how a fetch-and-embed can end
FontOutcomes  == {"ok", "networkError", "notOk", "badBytes"}
ImageOutcomes == {"png", "jpg", "networkError", "notOk", "badBytes"}

\* tryLoadTtf: the custom font, or Helvetica after any failure
tryLoadTtf(outcome) == IF outcome = "ok" THEN "custom" ELSE "Helvetica"

\* tryLoadImage letting the failure through to the caller
tryLoadImageRaising(url, outcome) ==
    IF url = "none" THEN "null"
    ELSE IF outcome \in {"png", "jpg"} THEN "image" ELSE "raised"

\* tryLoadImage: null without a URL, the image embedded as PNG or else as
\* JPG, null after any failure
tryLoadImage(url, outcome) ==
    IF url = "none" THEN "null"
    ELSE IF outcome \in {"png", "jpg"} THEN "image" ELSE "null"

\* AfterSave handing a blob to downloadBlob even when save() failed
AfterSaveAlways(ok, d, blob) == Append(d, blob)

\* const bytes = await pdfDoc.save(); this.downloadBlob(blob, filename):
\* downloadBlob is reached only when save() resolved
AfterSave(ok, d, blob) == IF ok THEN Append(d, blob) ELSE d

\* NewListPage with a footer stamped at once, before the page count is known
NewListPageStamped(a) ==
    [kind    |-> "list",
     images  |-> {i \in {"logo", "stamp"} : a[i] = "image"},
     rows    |-> <<>>,
     footers |-> <<[index |-> 1, total |-> 1]>>]

\* what newPage() adds to the document: header chrome, optional images,
\* no rows and no footer yet
NewListPage(a) ==
    [kind    |-> "list",
     images  |-> {i \in {"logo", "stamp"} : a[i] = "image"},
     rows    |-> <<>>,
     footers |-> <<>>]

\* y = headerY - 12, with headerY = (A4.h - marginTop) - headerH
ListStartY == A4h - marginTop * 100 - headerH * 100 - headerGap * 100

\* NeedsNewPage with the comparison turned round
NeedsNewPageInverted(cursor) == cursor - rowH * 100 >= marginBottom * 100

\* NeedsNewPage without the height of the row about to be placed
NeedsNewPageNoRow(cursor) == cursor < marginBottom * 100

\* if (y - rowH < marginBottom)
NeedsNewPage(cursor) == cursor - rowH * 100 < marginBottom * 100

\* ListFooter numbering the pages from 0
ListFooterFromZero(i, pgs) == [index |-> i, total |-> Len(pgs)]

\* const totalPages = pages.length
ListTotalPages(pgs) == Len(pgs)

\* rightText: `page ${i + 1} / ${totalPages}`
ListFooter(i, pgs) == [index |-> i + 1, total |-> ListTotalPages(pgs)]

\* const totalPages = tickets.length
DetailTotalPages(ts) == Len(ts)

\* DetailLoopCond stopping one record early
DetailLoopCondShort(i, ts) == i < Len(ts) - 1

\* index < tickets.length
DetailLoopCond(i, ts) == i < Len(ts)

\* one iteration of the detail loop: addPage, the cards, the footer
NewDetailPage(i, ts, a) ==
    [kind    |-> "detail",
     images  |-> {k \in {"logo", "stamp"} : a[k] = "image"},
     rows    |-> <<ts[i + 1]>>,
     footers |-> <<[index |-> i + 1, total |-> DetailTotalPages(ts)]>>]

BuildInit ==
    /\ \/ /\ pc = "create"
          /\ tickets \in {[i \in 1..n |-> i] : n \in 0..MaxRecords}
          /\ optLayout \in {"none", "list", "detail"}
          /\ optFilename \in {NoFilename, GivenFilename}
          /\ call = [entry |-> "downloadTicketsPdf", layout |-> optLayout,
                     filename |-> optFilename]
       \/ /\ pc = "ticket"
          /\ tickets \in {<<no>> : no \in 1..2}
          /\ optLayout \in {"none", "list", "detail"}
          /\ optFilename \in {NoFilename, GivenFilename}
          /\ call = [entry |-> "downloadTicketPdf", layout |-> optLayout,
                     filename |-> optFilename]
    /\ assets = [font |-> "none", logo |-> "none", stamp |-> "none"]
    /\ pages = <<>>
    /\ y = 0
    /\ index = 0
    /\ footIdx = 0
    /\ loadFailed = {}
    /\ error = "none"
    /\ delivered = <<>>

\* downloadTicketPdf: the file name, then downloadTicketsPdf([ticket], ...)
TicketPdf ==
    /\ pc = "ticket"
    /\ optFilename' = TicketFilename(optFilename, tickets[1])
    /\ optLayout' = TicketLayout(optLayout)
    /\ pc' = "create"
    /\ UNCHANGED <<call, tickets, assets, pages, y, index, footIdx, loadFailed,
                   error, delivered, outside>>

\* await PDFDocument.create()
Create ==
    /\ pc = "create"
    /\ pages' = <<>>
    /\ pc' = "font"
    /\ UNCHANGED <<optsVars, assets, y, index, footIdx, loadFailed, error,
                   delivered, outside>>

\* await this.tryLoadTtf(pdfDoc, fontUrl)
LoadFont ==
    /\ pc = "font"
    /\ \E o \in FontOutcomes :
          /\ assets' = [assets EXCEPT !.font = tryLoadTtf(o)]
          /\ loadFailed' = IF o = "ok" THEN loadFailed ELSE loadFailed \cup {"font"}
    /\ pc' = "logo"
    /\ UNCHANGED <<optsVars, pages, y, index, footIdx, error, delivered, outside>>

\* const logoImage = await this.tryLoadImage(pdfDoc, opts.logoUrl ?? null):
\* a rejection would end the invocation
LoadLogo ==
    /\ pc = "logo"
    /\ \E url \in {"none", "given"}, o \in ImageOutcomes :
          LET img == tryLoadImage(url, o) IN
          /\ assets' = IF img = "raised" THEN assets
                       ELSE [assets EXCEPT !.logo = img]
          /\ loadFailed' = IF url = "given" /\ o \notin {"png", "jpg"}
                           THEN loadFailed \cup {"logo"} ELSE loadFailed
          /\ pc' = IF img = "raised" THEN "failed" ELSE "stamp"
          /\ error' = IF img = "raised" THEN "asset" ELSE error
    /\ UNCHANGED <<optsVars, pages, y, index, footIdx, delivered, outside>>

\* const stampImage = await this.tryLoadImage(pdfDoc, opts.stampUrl ?? null):
\* a rejection would end the invocation
LoadStamp ==
    /\ pc = "stamp"
    /\ \E url \in {"none", "given"}, o \in ImageOutcomes :
          LET img == tryLoadImage(url, o) IN
          /\ assets' = IF img = "raised" THEN assets
                       ELSE [assets EXCEPT !.stamp = img]
          /\ loadFailed' = IF url = "given" /\ o \notin {"png", "jpg"}
                           THEN loadFailed \cup {"stamp"} ELSE loadFailed
          /\ pc' = IF img = "raised" THEN "failed" ELSE "build"
          /\ error' = IF img = "raised" THEN "asset" ELSE error
    /\ UNCHANGED <<optsVars, pages, y, index, footIdx, delivered, outside>>

\* buildListPdf up to the first newPage()
BeginList ==
    /\ pc = "build"
    /\ LayoutOf(optLayout) = "list"
    /\ pages' = Append(pages, NewListPage(assets))
    /\ y' = ListStartY
    /\ index' = 0
    /\ footIdx' = 0
    /\ pc' = IF Len(tickets) = 0 THEN "footers" ELSE "rows"
    /\ UNCHANGED <<optsVars, assets, loadFailed, error, delivered, outside>>

\* one iteration of for (const t of tickets)
PlaceRow ==
    /\ pc = "rows"
    /\ index < Len(tickets)
    /\ LET fresh == NeedsNewPage(y)
           pgs   == IF fresh THEN Append(pages, NewListPage(assets)) ELSE pages
           top   == IF fresh THEN ListStartY ELSE y
       IN  /\ pages' = [pgs EXCEPT ![Len(pgs)].rows = Append(@, tickets[index + 1])]
           /\ y' = top - rowH * 100
    /\ index' = index + 1
    /\ pc' = IF index + 1 < Len(tickets) THEN "rows" ELSE "footers"
    /\ UNCHANGED <<optsVars, assets, footIdx, loadFailed, error, delivered, outside>>

\* one iteration of for (let i = 0; i < totalPages; i++) drawFooter(pages[i])
StampFooter ==
    /\ pc = "footers"
    /\ footIdx < ListTotalPages(pages)
    /\ pages' = [pages EXCEPT ![footIdx + 1].footers =
                                   Append(@, ListFooter(footIdx, pages))]
    /\ footIdx' = footIdx + 1
    /\ pc' = IF footIdx + 1 < ListTotalPages(pages) THEN "footers" ELSE "save"
    /\ UNCHANGED <<optsVars, assets, y, index, loadFailed, error, delivered, outside>>

\* buildDetailPdf up to the loop
BeginDetail ==
    /\ pc = "build"
    /\ LayoutOf(optLayout) # "list"
    /\ index' = 0
    /\ pc' = IF DetailLoopCond(0, tickets) THEN "detail" ELSE "save"
    /\ UNCHANGED <<optsVars, assets, pages, y, footIdx, loadFailed, error,
                   delivered, outside>>

\* one iteration of for (let index = 0; index < tickets.length; index++)
DetailPage ==
    /\ pc = "detail"
    /\ DetailLoopCond(index, tickets)
    /\ pages' = Append(pages, NewDetailPage(index, tickets, assets))
    /\ index' = index + 1
    /\ pc' = IF DetailLoopCond(index + 1, tickets) THEN "detail" ELSE "save"
    /\ UNCHANGED <<optsVars, assets, y, footIdx, loadFailed, error, delivered, outside>>

\* the blob of the finished document and its file name
BlobOf(pgs, fn, opt) == [pages |-> pgs, filename |-> FilenameFor(fn, opt)]

\* await pdfDoc.save() resolves; this.downloadBlob(blob, filename)
Save ==
    /\ pc = "save"
    /\ delivered' = AfterSave(TRUE, delivered, BlobOf(pages, optFilename, optLayout))
    /\ pc' = "done"
    /\ UNCHANGED <<optsVars, assets, pages, y, index, footIdx, loadFailed, error,
                   outside>>

\* await pdfDoc.save() rejects: the rejection leaves downloadTicketsPdf
SaveFails ==
    /\ pc = "save"
    /\ delivered' = AfterSave(FALSE, delivered, BlobOf(pages, optFilename, optLayout))
    /\ error' = "save"
    /\ pc' = "failed"
    /\ UNCHANGED <<optsVars, assets, pages, y, index, footIdx, loadFailed, outside>>

(***************************************************************************)
(* Two invocations of downloadTicketsPdf in flight                         *)
(***************************************************************************)

Invocations == {1, 2}

\* PDFDocument.create() handing blobs one document for all invocations
PDFDocumentShared(ds) == 1

\* PDFDocument.create(): a new document, known to its creator alone
PDFDocumentCreate(ds) == Len(ds) + 1

\* the row loop of buildListPdf, from record i on
RECURSIVE ListRows(_, _, _, _, _)
ListRows(ts, i, pgs, cursor, a) ==
    IF i >= Len(ts) THEN pgs
    ELSE IF NeedsNewPage(cursor)
         THEN ListRows(ts, i + 1,
                       Append(pgs, [NewListPage(a) EXCEPT !.rows = <<ts[i + 1]>>]),
                       ListStartY - rowH * 100, a)
         ELSE ListRows(ts, i + 1,
                       [pgs EXCEPT ![Len(pgs)].rows = Append(@, ts[i + 1])],
                       cursor - rowH * 100, a)

\* the footer loop of buildListPdf
ListFooters(pgs) ==
    [i \in 1..Len(pgs) |->
        [pgs[i] EXCEPT !.footers = Append(@, ListFooter(i - 1, pgs))]]

\* buildListPdf: the pages it adds to the document
buildListPdf(ts, a) == ListFooters(ListRows(ts, 0, <<NewListPage(a)>>, ListStartY, a))

\* the loop of buildDetailPdf, from record i on
RECURSIVE DetailPages(_, _, _, _)
DetailPages(ts, i, pgs, a) ==
    IF DetailLoopCond(i, ts)
    THEN DetailPages(ts, i + 1, Append(pgs, NewDetailPage(i, ts, a)), a)
    ELSE pgs

\* buildDetailPdf: the pages it adds to the document
buildDetailPdf(ts, a) == DetailPages(ts, 0, <<>>, a)

\* the records of the first and of the second invocation
TicketsOf(k, n) == [i \in 1..n |-> 100 * (k - 1) + i]

TwoInit ==
    /\ invs \in [Invocations ->
                   [pc       : {"create"},
                    tickets  : {TicketsOf(1, n) : n \in {0, 1, 37}}
                                  \cup {TicketsOf(2, n) : n \in {1, 37}},
                    layout   : {"none", "list", "detail"},
                    filename : {NoFilename, GivenFilename},
                    doc      : {0},
                    assets   : {[font |-> "none", logo |-> "none", stamp |-> "none"]}]]
    /\ invs[1].tickets \in {TicketsOf(1, n) : n \in {0, 1, 37}}
    /\ invs[2].tickets \in {TicketsOf(2, n) : n \in {1, 37}}
    /\ invs[1].layout \in {"none", "detail"}
    /\ invs[2].layout \in {"list", "detail"}
    /\ invs[1].filename = NoFilename
    /\ invs[2].filename = GivenFilename
    /\ docs = <<>>
    /\ blobs = <<>>

\* const pdfDoc = await PDFDocument.create(), in either invocation
CreateOne ==
    \E k \in Invocations :
        /\ invs[k].pc = "create"
        /\ invs' = [invs EXCEPT ![k].pc = "font", ![k].doc = PDFDocumentCreate(docs)]
        /\ docs' = Append(docs, <<>>)
        /\ UNCHANGED <<blobs, notTwo>>

\* const font = await this.tryLoadTtf(pdfDoc, fontUrl), in either invocation
LoadFontOne ==
    \E k \in Invocations, o \in {"ok", "networkError"} :
        /\ invs[k].pc = "font"
        /\ invs' = [invs EXCEPT ![k].pc = "logo", ![k].assets.font = tryLoadTtf(o)]
        /\ UNCHANGED <<docs, blobs, notTwo>>

\* const logoImage = await this.tryLoadImage(...), in either invocation
LoadLogoOne ==
    \E k \in Invocations, o \in {"png", "notOk"} :
        /\ invs[k].pc = "logo"
        /\ invs' = [invs EXCEPT ![k].pc = "stamp",
                                ![k].assets.logo = tryLoadImage("given", o)]
        /\ UNCHANGED <<docs, blobs, notTwo>>

\* const stampImage = await this.tryLoadImage(...) and, without suspending,
\* the build of the pages up to await pdfDoc.save(), in either invocation
LoadStampAndBuildOne ==
    \E k \in Invocations, o \in {"png", "notOk"} :
        /\ invs[k].pc = "stamp"
        /\ LET a     == [invs[k].assets EXCEPT !.stamp = tryLoadImage("given", o)]
               built == IF LayoutOf(invs[k].layout) = "list"
                        THEN buildListPdf(invs[k].tickets, a)
                        ELSE buildDetailPdf(invs[k].tickets, a)
           IN  /\ invs' = [invs EXCEPT ![k].pc = "save", ![k].assets = a]
               /\ docs' = [docs EXCEPT ![invs[k].doc] = @ \o built]
        /\ UNCHANGED <<blobs, notTwo>>

\* await pdfDoc.save() resolves; this.downloadBlob(blob, filename)
SaveOne ==
    \E k \in Invocations :
        /\ invs[k].pc = "save"
        /\ blobs' = Append(blobs, [by       |-> k,
                               pages    |-> docs[invs[k].doc],
                               filename |-> FilenameFor(invs[k].filename,
                                                        invs[k].layout)])
        /\ invs' = [invs EXCEPT ![k].pc = "done"]
        /\ UNCHANGED <<docs, notTwo>>

(***************************************************************************)
(* The export actions of the pages: AdminImport.downloadAllPdf and         *)
(* TicketDetail.downloadPdf                                                *)
(***************************************************************************)

MaxTriggers == 3

\* the export actions
ExportActions == {"downloadAllPdf", "downloadPdf"}

\* 'PDF出力に失敗しました'
GenericFailed == "PDF export failed"

\* what a failed build rejects with: an Error carrying the engine's message,
\* or a value that is no Error
Thrown == {[isError |-> TRUE,  message |-> "engine: save failed"],
           [isError |-> FALSE, message |-> ""]}

\* e instanceof Error ? e.message : 'PDF出力に失敗しました'
MessageOf(e) == IF e.isError THEN e.message ELSE GenericFailed

\* if (tickets.length === 0 || this.exporting()) return
AllGuard(n, isBusy) == ~(n = 0 \/ isBusy)

\* if (!t) return
PdfGuard(t) == t

ShellInit ==
    /\ exporting = FALSE
    /\ importedTickets \in {0, 2}
    /\ ticket \in BOOLEAN
    /\ loadError = ""
    /\ adminShown = ""
    /\ inFlight = [a \in ExportActions |-> 0]
    /\ triggered = [a \in ExportActions |-> 0]
    /\ settled = [a \in ExportActions |-> "none"]
    /\ unhandled = 0

\* AdminImport.downloadAllPdf up to its await
TriggerDownloadAllPdf ==
    /\ triggered["downloadAllPdf"] < MaxTriggers
    /\ triggered' = [triggered EXCEPT !["downloadAllPdf"] = @ + 1]
    /\ IF AllGuard(importedTickets, exporting)
       THEN /\ exporting' = TRUE
            /\ inFlight' = [inFlight EXCEPT !["downloadAllPdf"] = @ + 1]
       ELSE UNCHANGED <<exporting, inFlight>>
    /\ UNCHANGED <<importedTickets, ticket, loadError, adminShown, settled,
                   unhandled, notShell>>

\* the build of downloadAllPdf resolves: finally { this.exporting.set(false) }
DownloadAllPdfResolves ==
    /\ inFlight["downloadAllPdf"] > 0
    /\ inFlight' = [inFlight EXCEPT !["downloadAllPdf"] = @ - 1]
    /\ exporting' = FALSE
    /\ settled' = [settled EXCEPT !["downloadAllPdf"] = "ok"]
    /\ UNCHANGED <<importedTickets, ticket, loadError, adminShown, triggered,
                   unhandled, notShell>>

\* the build of downloadAllPdf rejects: finally { this.exporting.set(false) },
\* and, there being no catch, the rejection leaves downloadAllPdf
DownloadAllPdfRejects ==
    /\ inFlight["downloadAllPdf"] > 0
    /\ inFlight' = [inFlight EXCEPT !["downloadAllPdf"] = @ - 1]
    /\ exporting' = FALSE
    /\ settled' = [settled EXCEPT !["downloadAllPdf"] = "failed"]
    /\ unhandled' = unhandled + 1
    /\ UNCHANGED <<importedTickets, ticket, loadError, adminShown, triggered,
                   notShell>>

\* TicketDetail.downloadPdf up to its await
TriggerDownloadPdf ==
    /\ triggered["downloadPdf"] < MaxTriggers
    /\ triggered' = [triggered EXCEPT !["downloadPdf"] = @ + 1]
    /\ IF PdfGuard(ticket)
       THEN inFlight' = [inFlight EXCEPT !["downloadPdf"] = @ + 1]
       ELSE UNCHANGED inFlight
    /\ UNCHANGED <<exporting, importedTickets, ticket, loadError, adminShown,
                   settled, unhandled, notShell>>

\* the build of downloadPdf resolves
DownloadPdfResolves ==
    /\ inFlight["downloadPdf"] > 0
    /\ inFlight' = [inFlight EXCEPT !["downloadPdf"] = @ - 1]
    /\ settled' = [settled EXCEPT !["downloadPdf"] = "ok"]
    /\ UNCHANGED <<exporting, importedTickets, ticket, loadError, adminShown,
                   triggered, unhandled, notShell>>

\* the build of downloadPdf rejects: catch (e) { this.loadError.set(...) }
DownloadPdfRejects ==
    /\ inFlight["downloadPdf"] > 0
    /\ \E e \in Thrown : loadError' = MessageOf(e)
    /\ inFlight' = [inFlight EXCEPT !["downloadPdf"] = @ - 1]
    /\ settled' = [settled EXCEPT !["downloadPdf"] = "failed"]
    /\ UNCHANGED <<exporting, importedTickets, ticket, adminShown, triggered,
                   unhandled, notShell>>

(***************************************************************************)
(* The body card of a detail page (buildDetailPdf)                         *)
(* Vertical positions are in 1/100 of a unit, as for the list pages.       *)
(***************************************************************************)

MaxBodyLen == 30

\* the geometry of a detail page
detailMarginTop    == 46
detailMarginBottom == 56
detailHeaderDrop   == 72
metaCardH          == 170
metaCardGap        == 18
bodyMinH           == 380
innerTopPad        == 44
innerBottomPad     == 16
lineH              == 16

\* const bodyTop = y, after y = A4.h - marginTop; y -= 72; y -= metaCardH + 18
bodyTop ==
    A4h - detailMarginTop * 100 - detailHeaderDrop * 100
        - (metaCardH + metaCardGap) * 100

\* const bodyH = Math.max(380, bodyTop - marginBottom)
bodyH == Max(bodyMinH * 100, bodyTop - detailMarginBottom * 100)

\* const innerTop = bodyTop - 44
innerTop == bodyTop - innerTopPad * 100

\* const innerBottom = bodyTop - bodyH + 16
innerBottom == bodyTop - bodyH + innerBottomPad * 100

\* BelowCard stopping one line early
BelowCardEarly(c) == c - lineH * 100 < innerBottom

\* if (yy < innerBottom) break
BelowCard(c) == c < innerBottom

\* a body of n characters without a line break
RunBody(n) == [i \in 1..n |-> IF i % 3 = 0 THEN "b" ELSE "a"]

\* a body of short and empty paragraphs, n characters in all
ParaBody(n) == [i \in 1..n |-> IF i % 7 = 0 THEN "a" ELSE LF]

BodyInit ==
    /\ bpc = "wrap"
    /\ body \in {RunBody(n) : n \in 0..MaxBodyLen} \cup {ParaBody(n) : n \in 0..MaxBodyLen}
    /\ bodyFont \in {"mono", "prop"}
    /\ innerW \in 1..2
    /\ bodyLines = <<>>
    /\ lineIdx = 0
    /\ yy = 0
    /\ drawn = <<>>

\* const lines = this.wrapText(body, font, 11, innerW); let yy = innerTop
WrapBody ==
    /\ bpc = "wrap"
    /\ bodyLines' = wrapText(body, bodyFont, innerW)
    /\ yy' = innerTop
    /\ bpc' = "loop"
    /\ UNCHANGED <<body, bodyFont, innerW, lineIdx, drawn, notBody>>

\* one iteration of for (const line of lines) that draws its line
DrawBodyLine ==
    /\ bpc = "loop"
    /\ lineIdx < Len(bodyLines)
    /\ ~BelowCard(yy)
    /\ drawn' = Append(drawn, [text |-> bodyLines[lineIdx + 1], y |-> yy])
    /\ yy' = yy - lineH * 100
    /\ lineIdx' = lineIdx + 1
    /\ UNCHANGED <<bpc, body, bodyFont, innerW, bodyLines, notBody>>

\* the loop ends: no line is left, or if (yy < innerBottom) break
LeaveBodyLoop ==
    /\ bpc = "loop"
    /\ lineIdx >= Len(bodyLines) \/ BelowCard(yy)
    /\ bpc' = "done"
    /\ UNCHANGED <<body, bodyFont, innerW, bodyLines, lineIdx, yy, drawn, notBody>>

(***************************************************************************)
(* Delimited-text export (TicketCsvExportService): csvEscape, toCsv,       *)
(* downloadTickets.  A string is a sequence of characters.                 *)
(***************************************************************************)

MaxFieldLen   == 4
MaxCsvTickets == 2

QUOTE == "QUOTE"
COMMA == "COMMA"
SP    == "SP"

CsvChars == {"a", QUOTE, COMMA, CR, LF}

\* needQuote without the carriage return: /[",\n]/
NeedQuoteNoCR(s) == \E i \in 1..Len(s) : s[i] \in {QUOTE, COMMA, LF}

\* const needQuote = /[",\r\n]/.test(s)
NeedQuote(s) == \E i \in 1..Len(s) : s[i] \in {QUOTE, COMMA, CR, LF}

\* s.replace(/"/g, '""')
RECURSIVE DoubleQuotes(_)
DoubleQuotes(s) ==
    IF s = <<>> THEN <<>>
    ELSE (IF Head(s) = QUOTE THEN <<QUOTE, QUOTE>> ELSE <<Head(s)>>)
             \o DoubleQuotes(Tail(s))

\* csvEscape: String(v ?? ''), then needQuote ? `"${escaped}"` : escaped
csvEscape(v) ==
    LET s == StringOf(v) IN
    IF NeedQuote(s) THEN <<QUOTE>> \o DoubleQuotes(s) \o <<QUOTE>>
    ELSE DoubleQuotes(s)

\* parts.join(sep)
RECURSIVE Join(_, _)
Join(parts, sep) ==
    IF parts = <<>> THEN <<>>
    ELSE IF Len(parts) = 1 THEN parts[1]
    ELSE parts[1] \o sep \o Join(Tail(parts), sep)

\* rows.map((r) => r.map(csvEscape).join(',')).join('\r\n')
toCsv(rows) ==
    Join([k \in 1..Len(rows) |->
             Join([c \in 1..Len(rows[k]) |-> csvEscape(rows[k][c])], <<COMMA>>)],
         <<CR, LF>>)

\* s.trim()
RECURSIVE TrimLeft(_)
TrimLeft(s) == IF s # <<>> /\ Head(s) = SP THEN TrimLeft(Tail(s)) ELSE s

RECURSIVE TrimRight(_)
TrimRight(s) ==
    IF s # <<>> /\ s[Len(s)] = SP THEN TrimRight(SubSeq(s, 1, Len(s) - 1)) ELSE s

Trim(s) == TrimRight(TrimLeft(s))

\* t.assignee is undefined
NoAssignee == <<"undefined">>

\* the columns of the export in the order of the specification
csvColsSpecOrder ==
    <<"no", "subject", "customerName", "assignee", "status", "priority",
      "createdAt", "updatedAt">>

\* private readonly cols: the keys (= headers) in order
csvCols ==
    <<"no", "createdAt", "subject", "status", "priority", "assignee",
      "customerName", "updatedAt">>

\* the header text of a column: its key, as one sequence of characters
HeaderOf(key) == <<key>>

\* c.get(t): String(t.no), (t.assignee ?? '').trim(), the field itself
CellOf(key, t) ==
    CASE key = "no"       -> <<ToString(t.no)>>
      [] key = "assignee" -> Trim(IF t.assignee = NoAssignee THEN <<>> ELSE t.assignee)
      [] OTHER            -> t[key]

\* the rows of downloadTickets: the headers, then one row per ticket
RowsOf(ts) ==
    <<[c \in 1..Len(csvCols) |-> HeaderOf(csvCols[c])]>>
        \o [k \in 1..Len(ts) |-> [c \in 1..Len(csvCols) |-> CellOf(csvCols[c], ts[k])]]

\* the tickets exported
CsvTicketSet ==
    [no           : 1..2,
     subject      : {<<"a">>, <<"a", COMMA, QUOTE>>},
     customerName : {<<"N">>},
     assignee     : {<<"A">>, <<SP, "A", SP>>, NoAssignee},
     status       : {<<"S">>},
     priority     : {<<"P">>},
     createdAt    : {<<"C">>},
     updatedAt    : {<<"U">>}]

RECURSIVE CsvStringsOfLen(_)
CsvStringsOfLen(n) ==
    IF n = 0 THEN {<<>>}
    ELSE {Append(s, ch) : s \in CsvStringsOfLen(n - 1), ch \in CsvChars}

CsvInit ==
    /\ cpc = "input"
    /\ \/ /\ field \in UNION {CsvStringsOfLen(n) : n \in 0..MaxFieldLen} \cup {Null}
          /\ csvTickets = <<>>
       \/ /\ field = <<>>
          /\ csvTickets \in UNION {[1..n -> {t \in CsvTicketSet :
                                                t.no = 1 \/ t.subject = <<"a">>}]
                                      : n \in 1..MaxCsvTickets}
    /\ escapedField = <<>>
    /\ csvRows = <<>>
    /\ csvContent = <<>>

\* csvEscape(v)
DoCsvEscape ==
    /\ cpc = "input"
    /\ escapedField' = csvEscape(field)
    /\ cpc' = "escaped"
    /\ UNCHANGED <<field, csvTickets, csvRows, csvContent, notCsv>>

\* downloadTickets(tickets): rows, then downloadText(name, toCsv(rows))
DownloadTickets ==
    /\ cpc = "escaped"
    /\ csvRows' = RowsOf(csvTickets)
    /\ csvContent' = toCsv(RowsOf(csvTickets))
    /\ cpc' = "exported"
    /\ UNCHANGED <<field, escapedField, csvTickets, notCsv>>

(***************************************************************************)
(* Label / value block of a detail page (drawLabelValueBlock)              *)
(***************************************************************************)

MaxMaxLines == 2

\* lines.slice(0, max)
SliceLines(ls, n) == SubSeq(ls, 1, Min(n, Len(ls)))

\* const shown = lines.slice(0, max) and, if (lines.length > max), the last
\* shown line replaced by clipToWidth(last, font, valueSize, maxValueW)
ShownOf(ls, n, f, w) ==
    LET max   == Max(1, n)
        shown == SliceLines(ls, max)
    IN  IF Len(ls) > max
        THEN [shown EXCEPT ![Len(shown)] = clipToWidth(shown[Len(shown)], f, w)]
        ELSE shown

\* page.drawText(line || '-')
DrawnText(line) == IF line = <<>> THEN <<"-">> ELSE line

LabelInit ==
    /\ lpc = "input"
    /\ value \in Texts
    /\ labelFont \in {"mono", "wide"}
    /\ valueW \in 1..3
    /\ maxLines \in 1..MaxMaxLines
    /\ valueLines = <<>>
    /\ shownLines = <<>>

\* drawLabelValueBlock: wrap the value, keep max lines, clip the last, draw
DrawLabelValueBlock ==
    /\ lpc = "input"
    /\ LET ls == wrapText(value, labelFont, valueW)
           sh == ShownOf(ls, maxLines, labelFont, valueW)
       IN  /\ valueLines' = ls
           /\ shownLines' = [i \in 1..Len(sh) |-> DrawnText(sh[i])]
    /\ lpc' = "done"
    /\ UNCHANGED <<value, labelFont, valueW, maxLines, notLabel>>

(***************************************************************************)
(* Ticket store (TicketStore)                                              *)
(***************************************************************************)

MaxStore   == 3
MaxInputs  == 2
MaxPending == 2

\* the Status values of the source: '受付', '対応中', '完了'
Received   == "received"
InProgress == "in progress"
Done       == "done"
Statuses   == {Received, InProgress, Done}

normalizeStatus(v) == IF v \in Statuses THEN v ELSE Received

\* list.reduce((max, t) => Math.max(max, t.no), 0)
RECURSIVE ReduceMaxNo(_, _)
ReduceMaxNo(list, max) ==
    IF list = <<>> THEN max
    ELSE ReduceMaxNo(Tail(list), Max(max, Head(list).no))

\* a numbering by list length
nextNoFromLength(list) == Len(list) + 1

nextNoFrom(list) == ReduceMaxNo(list, 0) + 1

\* the ticket add and bulkAdd build from an input (the fields the model keeps)
CreatedTicket(x, no) ==
    [no |-> no, customerName |-> Trim(x.customerName), status |-> Received]

\* inputs.map((x) => ({ no: no++, ... })) with no starting at nextNoFrom(current)
CreatedList(current, inputs) ==
    [i \in 1..Len(inputs) |->
        CreatedTicket(inputs[i], nextNoFrom(current) + (i - 1))]

\* Array.prototype.reverse
ReverseSeq(s) == [i \in 1..Len(s) |-> s[Len(s) + 1 - i]]

\* add: next = [created, ...current]
addNext(current, x) == <<CreatedTicket(x, nextNoFrom(current))>> \o current

\* bulkAdd: next = [...createdList.reverse(), ...current]
bulkAddNext(current, inputs) ==
    IF Len(inputs) = 0 THEN current
    ELSE ReverseSeq(CreatedList(current, inputs)) \o current

\* update: the ticket numbered no gets the patched status, the others stay
updateNext(list, no, status) ==
    [i \in 1..Len(list) |->
        IF list[i].no # no THEN list[i]
        ELSE [list[i] EXCEPT !.status = normalizeStatus(status)]]

SeedTicket(n) == [no |-> n, customerName |-> <<"s">>, status |-> Received]

Seeds == {<<>>, <<SeedTicket(2), SeedTicket(1)>>}

StoredLists == {<<>>, <<SeedTicket(3)>>, <<SeedTicket(1), SeedTicket(3)>>}

StoreInputs == {[customerName |-> <<"p">>], [customerName |-> <<SP, "q">>]}

RECURSIVE InputsOfLen(_)
InputsOfLen(n) ==
    IF n = 0 THEN {<<>>}
    ELSE {Append(s, x) : s \in InputsOfLen(n - 1), x \in StoreInputs}

InputLists == UNION {InputsOfLen(n) : n \in 0..MaxInputs}

\* the numbers update is called with: those of the list and one absent number
UpdateNos == {storeTickets[i].no : i \in 1..Len(storeTickets)} \cup {0}

StoreInit ==
    /\ storeTickets = <<>>
    /\ initialized = FALSE
    /\ \/ lsStored = FALSE /\ lsTickets = <<>>
       \/ lsStored = TRUE /\ lsTickets \in StoredLists
    /\ seed \in Seeds
    /\ pendingFetch = 0
    /\ written = FALSE
    /\ lastKind = "none"
    /\ prevTickets = <<>>
    /\ lastCreated = <<>>

\* initOnce up to its return or its await
InitOnce ==
    /\ \/ /\ initialized
          /\ UNCHANGED <<storeTickets, initialized, lsStored, lsTickets,
                         pendingFetch, written>>
       \/ /\ ~initialized
          /\ lsStored
          /\ storeTickets' = lsTickets
          /\ initialized' = TRUE
          /\ written' = TRUE
          /\ UNCHANGED <<lsStored, lsTickets, pendingFetch>>
       \/ /\ ~initialized
          /\ ~lsStored
          /\ pendingFetch < MaxPending
          /\ pendingFetch' = pendingFetch + 1
          /\ UNCHANGED <<storeTickets, initialized, lsStored, lsTickets, written>>
    /\ lastKind' = "initOnce"
    /\ prevTickets' = storeTickets
    /\ lastCreated' = <<>>
    /\ UNCHANGED <<seed, notStore>>

\* initOnce after the await: the seed replaces the list and is saved
SeedArrives ==
    /\ pendingFetch > 0
    /\ pendingFetch' = pendingFetch - 1
    /\ storeTickets' = seed
    /\ initialized' = TRUE
    /\ lsStored' = TRUE
    /\ lsTickets' = seed
    /\ written' = TRUE
    /\ lastKind' = "seed"
    /\ prevTickets' = storeTickets
    /\ lastCreated' = <<>>
    /\ UNCHANGED <<seed, notStore>>

\* the fetch fails: firstValueFrom rejects and initOnce rejects with it
SeedFails ==
    /\ pendingFetch > 0
    /\ pendingFetch' = pendingFetch - 1
    /\ lastKind' = "seedFailed"
    /\ prevTickets' = storeTickets
    /\ lastCreated' = <<>>
    /\ UNCHANGED <<storeTickets, initialized, lsStored, lsTickets, written,
                   seed, notStore>>

Add ==
    /\ Len(storeTickets) < MaxStore
    /\ \E x \in StoreInputs :
        /\ storeTickets' = addNext(storeTickets, x)
        /\ lastCreated' = <<CreatedTicket(x, nextNoFrom(storeTickets))>>
    /\ lsStored' = TRUE
    /\ lsTickets' = storeTickets'
    /\ written' = TRUE
    /\ lastKind' = "add"
    /\ prevTickets' = storeTickets
    /\ UNCHANGED <<initialized, seed, pendingFetch, notStore>>

BulkAdd ==
    \E inputs \in InputLists :
        /\ Len(storeTickets) + Len(inputs) <= MaxStore
        /\ storeTickets' = bulkAddNext(storeTickets, inputs)
        /\ lastCreated' = CreatedList(storeTickets, inputs)
        /\ IF Len(inputs) = 0
           THEN UNCHANGED <<lsStored, lsTickets, written>>
           ELSE /\ lsStored' = TRUE
                /\ lsTickets' = storeTickets'
                /\ written' = TRUE
        /\ lastKind' = "bulkAdd"
        /\ prevTickets' = storeTickets
        /\ UNCHANGED <<initialized, seed, pendingFetch, notStore>>

UpdateStatus ==
    /\ \E no \in UpdateNos :
        storeTickets' = updateNext(storeTickets, no, Done)
    /\ lsStored' = TRUE
    /\ lsTickets' = storeTickets'
    /\ written' = TRUE
    /\ lastKind' = "updateStatus"
    /\ prevTickets' = storeTickets
    /\ lastCreated' = <<>>
    /\ UNCHANGED <<initialized, seed, pendingFetch, notStore>>

Update ==
    /\ \E no \in UpdateNos, status \in {InProgress, "on hold"} :
        storeTickets' = updateNext(storeTickets, no, status)
    /\ lsStored' = TRUE
    /\ lsTickets' = storeTickets'
    /\ written' = TRUE
    /\ lastKind' = "update"
    /\ prevTickets' = storeTickets
    /\ lastCreated' = <<>>
    /\ UNCHANGED <<initialized, seed, pendingFetch, notStore>>

ClearAll ==
    /\ storeTickets' = <<>>
    /\ lsStored' = TRUE
    /\ lsTickets' = <<>>
    /\ written' = TRUE
    /\ lastKind' = "clearAll"
    /\ prevTickets' = storeTickets
    /\ lastCreated' = <<>>
    /\ UNCHANGED <<initialized, seed, pendingFetch, notStore>>

(***************************************************************************)
(* CSV import (TicketCsvImportService.importCsv, AdminImport.runImport)    *)
(***************************************************************************)

MAX_ROWS    == 5000
MaxFileRows == 2

\* the byte-order mark U+FEFF and the priority characters, one token each
BOM  == "BOM"
HIGH == "HIGH"
MID  == "MID"
LOW  == "LOW"

H_subject      == <<"s", "u", "b", "j", "e", "c", "t">>
H_body         == <<"b", "o", "d", "y">>
H_customerName == <<"c", "u", "s", "t", "o", "m", "e", "r", "N", "a", "m", "e">>
H_customername == <<"c", "u", "s", "t", "o", "m", "e", "r", "n", "a", "m", "e">>
H_priority     == <<"p", "r", "i", "o", "r", "i", "t", "y">>
H_assignee     == <<"a", "s", "s", "i", "g", "n", "e", "e">>
H_note         == <<"n", "o", "t", "e">>

REQUIRED_HEADERS_LOWER ==
    <<H_subject, H_body, H_customername, H_priority, H_assignee>>

REQUIRED_HEADERS ==
    <<H_subject, H_body, H_customerName, H_priority, H_assignee>>

\* String.prototype.toLowerCase on the letters the model uses
LowerChar(c) ==
    CASE c = "B" -> "b"
      [] c = "N" -> "n"
      [] c = "S" -> "s"
      [] OTHER   -> c

toLowerCase(s) == [i \in 1..Len(s) |-> LowerChar(s[i])]

\* String.prototype.trim: white space, which includes U+FEFF, off both ends
IsSpace(c) == c \in {SP, BOM}

RECURSIVE jsTrimLeft(_)
jsTrimLeft(s) == IF s # <<>> /\ IsSpace(Head(s)) THEN jsTrimLeft(Tail(s)) ELSE s

RECURSIVE jsTrimRight(_)
jsTrimRight(s) ==
    IF s # <<>> /\ IsSpace(s[Len(s)]) THEN jsTrimRight(SubSeq(s, 1, Len(s) - 1))
    ELSE s

jsTrim(s) == jsTrimRight(jsTrimLeft(s))

\* .replace(/^\\uFEFF/, '')
StripBom(s) == IF s # <<>> /\ Head(s) = BOM THEN Tail(s) ELSE s

normalizeHeader(h) == toLowerCase(StripBom(jsTrim(StringOf(h))))

asString(v) == jsTrim(StringOf(v))

normalizePriority(v) ==
    IF v = <<>> THEN <<MID>>
    ELSE IF v \in {<<HIGH>>, <<MID>>, <<LOW>>} THEN v
    ELSE Null

\* Papa.parse with header: true and transformHeader: meta.fields holds the
\* transformed header cells and every data row is keyed by them
ParsedFields(file) == [i \in 1..Len(file.fields) |-> normalizeHeader(file.fields[i])]

\* raw[key]: the cell under the field named key, undefined without one
RawGet(file, cells, key) ==
    IF \E i \in 1..Len(cells) : ParsedFields(file)[i] = key
    THEN cells[CHOOSE i \in 1..Len(cells) : ParsedFields(file)[i] = key]
    ELSE Null

\* a valid row standing for the rows beyond those the file lists
PadRow == <<<<"s">>, <<"b">>, <<"c">>, <<>>, <<>>>>

RowCount(file) == Len(file.rows) + file.padRows

RowAt(file, i) == IF i <= Len(file.rows) THEN file.rows[i] ELSE PadRow

\* headers = (parsed.meta.fields ?? []).map(normalizeHeader)
HeadersOf(file) ==
    [i \in 1..Len(file.fields) |-> normalizeHeader(ParsedFields(file)[i])]

Includes(list, x) == \E i \in 1..Len(list) : list[i] = x

\* a header check that finds nothing missing
MissingNone(headers) == <<>>

\* REQUIRED_HEADERS.filter((h) => !headers.includes(h))
Missing(headers) ==
    SelectSeq(REQUIRED_HEADERS, LAMBDA h : ~Includes(headers, h))

\* the errors the loop body pushes for row i (line i + 2)
RowErrors(file, i) ==
    LET raw         == RowAt(file, i)
        line        == i + 2
        subject     == asString(RawGet(file, raw, H_subject))
        bodyText    == asString(RawGet(file, raw, H_body))
        priorityRaw == asString(RawGet(file, raw, H_priority))
    IN  (IF subject = <<>> THEN <<[line |-> line, message |-> "subject empty"]>> ELSE <<>>)
        \o (IF bodyText = <<>> THEN <<[line |-> line, message |-> "body empty"]>> ELSE <<>>)
        \o (IF normalizePriority(priorityRaw) = Null
            THEN <<[line |-> line, message |-> "bad priority"]>> ELSE <<>>)

\* the input the loop body pushes for row i
RowInput(file, i) ==
    LET raw == RowAt(file, i) IN
    [subject      |-> asString(RawGet(file, raw, H_subject)),
     body         |-> asString(RawGet(file, raw, H_body)),
     customerName |-> asString(RawGet(file, raw, H_customerName)),
     priority     |-> normalizePriority(asString(RawGet(file, raw, H_priority))),
     assignee     |-> asString(RawGet(file, raw, H_assignee))]

\* the row loop, lines 94-122: errors and inputs after rows i..n
RECURSIVE ValidateFrom(_, _, _, _)
ValidateFrom(file, i, errs, inputs) ==
    IF i > RowCount(file) THEN [errors |-> errs, inputs |-> inputs]
    ELSE LET e == RowErrors(file, i) IN
         ValidateFrom(file, i + 1, errs \o e,
                      IF e # <<>> THEN inputs ELSE Append(inputs, RowInput(file, i)))

Failed(errs) == [ok |-> FALSE, errors |-> errs, inputs |-> <<>>]

importCsv(file) ==
    IF file.parseErrors # <<>>
    THEN Failed([i \in 1..Len(file.parseErrors) |->
                    [line |-> file.parseErrors[i].row + 2,
                     message |-> file.parseErrors[i].message]])
    ELSE IF Missing(HeadersOf(file)) # <<>>
    THEN Failed(<<[line |-> 1, message |-> "header missing"]>>)
    ELSE IF RowCount(file) > MAX_ROWS
    THEN Failed(<<[line |-> 0, message |-> "row limit"]>>)
    ELSE LET v == ValidateFrom(file, 1, <<>>, <<>>) IN
         IF v.errors # <<>> THEN Failed(v.errors)
         ELSE [ok |-> TRUE, errors |-> <<>>, inputs |-> v.inputs]

\* sanitizeMessage, by the words each message holds
sanitizeMessage(msg) ==
    CASE msg \in {"subject empty", "body empty", "bad priority", "header missing"}
              -> "check the columns"
      [] msg = "quote unterminated" -> "check the CSV format"
      [] OTHER -> msg

sanitizeErrors(list) ==
    [i \in 1..Len(list) |->
        [line |-> list[i].line, message |-> sanitizeMessage(list[i].message)]]

ImportFailedError == <<[line |-> 0, message |-> "import failed"]>>

HeaderRows ==
    { REQUIRED_HEADERS,
      REQUIRED_HEADERS_LOWER,
      <<<<BOM>> \o H_subject, <<SP, "B">> \o Tail(H_body), H_customerName,
        H_priority, H_assignee \o <<SP>>>>,
      <<H_subject, H_note, H_customerName, H_priority, H_assignee>> }

\* data rows: subject, body, customerName, priority, assignee
FileRows ==
    { <<<<"s">>, <<"b">>, <<"c">>, <<HIGH>>, <<"a">>>>,
      <<<<"s">>, <<"b">>, <<SP, "d">>, <<>>, <<>>>>,
      <<<<>>, <<"b">>, <<"c">>, <<LOW>>, <<"a">>>>,
      <<<<"s">>, <<SP>>, <<"c">>, <<>>, <<"a">>>>,
      <<<<"s">>, <<"b">>, <<"c">>, <<"x">>, <<"a">>>> }

RECURSIVE RowsOfLen(_)
RowsOfLen(n) ==
    IF n = 0 THEN {<<>>}
    ELSE {Append(s, r) : s \in RowsOfLen(n - 1), r \in FileRows}

ParseErrorLists == {<<>>, <<[row |-> 0, message |-> "quote unterminated"]>>}

Files ==
    { [fields |-> h, rows |-> rs, padRows |-> p, parseErrors |-> pe] :
        h \in HeaderRows, rs \in UNION {RowsOfLen(n) : n \in 0..MaxFileRows},
        p \in {0, MAX_ROWS}, pe \in ParseErrorLists }

NoFile   == [fields |-> <<>>, rows |-> <<>>, padRows |-> 0, parseErrors |-> <<>>]
NoResult == [ok |-> FALSE, errors |-> <<>>, inputs |-> <<>>]

ImportInit ==
    /\ StoreInit
    /\ ipc = "ready"
    /\ selectedFile \in {f \in Files : f.padRows = 0 \/ Len(f.rows) >= 1}
    /\ busy = FALSE
    /\ errors = <<>>
    /\ successMessage = ""
    /\ importedList = <<>>
    /\ beforeNos = {}
    /\ importResult = NoResult

\* runImport up to await this.store.initOnce()
RunImport ==
    /\ ipc = "ready"
    /\ ~busy
    /\ busy' = TRUE
    /\ successMessage' = ""
    /\ errors' = <<>>
    /\ importedList' = <<>>
    /\ ipc' = "initOnce"
    /\ UNCHANGED <<selectedFile, beforeNos, importResult, storeVars, notImport>>

\* store.initOnce() settles: runImport goes on to importCsv (line 73), or to
\* its catch and finally when the seed fetch failed
ImportInitOnce ==
    /\ ipc = "initOnce"
    /\ \/ /\ initialized
          /\ UNCHANGED <<storeTickets, initialized, lsStored, lsTickets, written>>
          /\ beforeNos' = {storeTickets[i].no : i \in 1..Len(storeTickets)}
          /\ ipc' = "importCsv"
          /\ UNCHANGED <<busy, errors>>
       \/ /\ ~initialized
          /\ lsStored
          /\ storeTickets' = lsTickets
          /\ initialized' = TRUE
          /\ written' = TRUE
          /\ UNCHANGED <<lsStored, lsTickets>>
          /\ beforeNos' = {lsTickets[i].no : i \in 1..Len(lsTickets)}
          /\ ipc' = "importCsv"
          /\ UNCHANGED <<busy, errors>>
       \/ /\ ~initialized
          /\ ~lsStored
          /\ storeTickets' = seed
          /\ initialized' = TRUE
          /\ written' = TRUE
          /\ lsStored' = TRUE
          /\ lsTickets' = seed
          /\ beforeNos' = {seed[i].no : i \in 1..Len(seed)}
          /\ ipc' = "importCsv"
          /\ UNCHANGED <<busy, errors>>
       \/ /\ ~initialized
          /\ ~lsStored
          /\ UNCHANGED <<storeTickets, initialized, lsStored, lsTickets, written>>
          /\ errors' = ImportFailedError
          /\ busy' = FALSE
          /\ ipc' = "done"
          /\ UNCHANGED beforeNos
    /\ lastKind' = "initOnce"
    /\ prevTickets' = storeTickets
    /\ lastCreated' = <<>>
    /\ UNCHANGED <<selectedFile, successMessage, importedList, importResult,
                   seed, pendingFetch, notImport>>

\* importCsv settles: lines 75-93 of runImport
ImportCsvSettles ==
    /\ ipc = "importCsv"
    /\ LET res == importCsv(selectedFile) IN
       /\ importResult' = res
       /\ IF ~res.ok
          THEN /\ errors' = sanitizeErrors(res.errors)
               /\ UNCHANGED <<storeTickets, lsStored, lsTickets, written,
                              importedList, successMessage,
                              lastKind, prevTickets, lastCreated>>
          ELSE /\ storeTickets' = bulkAddNext(storeTickets, res.inputs)
               /\ IF Len(res.inputs) = 0
                  THEN UNCHANGED <<lsStored, lsTickets, written>>
                  ELSE /\ lsStored' = TRUE
                       /\ lsTickets' = storeTickets'
                       /\ written' = TRUE
               /\ importedList' =
                      SelectSeq(storeTickets', LAMBDA t : t.no \notin beforeNos)
               /\ successMessage' = Len(res.inputs)
               /\ lastKind' = "bulkAdd"
               /\ prevTickets' = storeTickets
               /\ lastCreated' = CreatedList(storeTickets, res.inputs)
               /\ UNCHANGED errors
    /\ busy' = FALSE
    /\ ipc' = "done"
    /\ UNCHANGED <<selectedFile, beforeNos, initialized, seed, pendingFetch,
                   notImport>>

(***************************************************************************)
(* Route guard (authGuard, routes, AuthService)                            *)
(***************************************************************************)

NoRole == "null"
Roles  == {"admin", "user"}

\* users.json
Users == { [id |-> "a", password |-> "pa", role |-> "admin"],
           [id |-> "u", password |-> "pu", role |-> "user"] }

Credentials == { [id |-> "a", password |-> "pa"],
                 [id |-> "u", password |-> "pu"],
                 [id |-> "u", password |-> "x"] }

\* data.users.find((u) => u.id === userId && u.password === password)
FindUser(c) == {u \in Users : u.id = c.id /\ u.password = c.password}

NoData == [requiredRole |-> NoRole]

\* the guarded parent route and its children
ParentRoute == [path |-> "", canActivate |-> TRUE, data |-> NoData]

ChildRoutes ==
    { [path |-> "/home",         data |-> NoData],
      [path |-> "/tickets",      data |-> NoData],
      [path |-> "/tickets/new",  data |-> NoData],
      [path |-> "/tickets/1",    data |-> NoData],
      [path |-> "/admin/import", data |-> [requiredRole |-> "admin"]] }

\* route.data?.['requiredRole'] ?? null
getRequiredRoleFromActivate(data) == data.requiredRole

\* authGuard(route, state): "true" or the path of the redirect
authGuard(data, isIn, role) ==
    IF ~isIn THEN "/login"
    ELSE IF getRequiredRoleFromActivate(data) # NoRole
            /\ role # getRequiredRoleFromActivate(data)
         THEN "/home"
         ELSE "true"

\* the router calls a canActivate guard with the snapshot of the route that
\* declares it: here the parent, for every child
GuardSnapshotData(child) == ParentRoute.data

NoNav == [url |-> "", loggedIn |-> FALSE, role |-> NoRole, outcome |-> ""]

GuardInit ==
    /\ loggedIn = FALSE
    /\ currentRole = NoRole
    /\ pendingLogins = {}
    /\ loginResult = "none"
    /\ currentUrl = "/login"
    /\ lastNav = NoNav

\* login up to await firstValueFrom(http.get('/users.json'))
LoginCall ==
    /\ \E c \in Credentials :
        /\ c \notin pendingLogins
        /\ pendingLogins' = pendingLogins \cup {c}
    /\ UNCHANGED <<loggedIn, currentRole, loginResult, currentUrl, lastNav, notGuard>>

\* login after the await
LoginSettles ==
    /\ \E c \in pendingLogins :
        /\ pendingLogins' = pendingLogins \ {c}
        /\ IF FindUser(c) # {}
           THEN /\ loggedIn' = TRUE
                /\ currentRole' = (CHOOSE u \in FindUser(c) : TRUE).role
           ELSE /\ loggedIn' = FALSE
                /\ currentRole' = NoRole
    /\ loginResult' = currentRole'
    /\ UNCHANGED <<currentUrl, lastNav, notGuard>>

\* the request for users.json fails: login rejects
LoginFails ==
    /\ \E c \in pendingLogins : pendingLogins' = pendingLogins \ {c}
    /\ loginResult' = "rejected"
    /\ UNCHANGED <<loggedIn, currentRole, currentUrl, lastNav, notGuard>>

Logout ==
    /\ loggedIn
    /\ loggedIn' = FALSE
    /\ currentRole' = NoRole
    /\ UNCHANGED <<pendingLogins, loginResult, currentUrl, lastNav, notGuard>>

\* a navigation to a child of the guarded route
Navigate ==
    /\ \E child \in ChildRoutes :
        LET decision == authGuard(GuardSnapshotData(child), loggedIn, currentRole) IN
        /\ lastNav' = [url |-> child.path, loggedIn |-> loggedIn,
                       role |-> currentRole, outcome |-> decision]
        /\ currentUrl' = IF decision = "true" THEN child.path ELSE decision
    /\ UNCHANGED <<loggedIn, currentRole, pendingLogins, loginResult, notGuard>>

(***************************************************************************)
(* Specifications                                                          *)
(***************************************************************************)

CsvIdle   == /\ cpc = "idle" /\ field = <<>> /\ escapedField = <<>>
             /\ csvTickets = <<>> /\ csvRows = <<>> /\ csvContent = <<>>
LabelIdle == /\ lpc = "idle" /\ value = <<>> /\ labelFont = "mono" /\ valueW = 0
             /\ maxLines = 0 /\ valueLines = <<>> /\ shownLines = <<>>
StoreIdle == /\ storeTickets = <<>> /\ initialized = FALSE /\ lsStored = FALSE
             /\ lsTickets = <<>> /\ seed = <<>> /\ pendingFetch = 0 /\ written = FALSE
             /\ lastKind = "none" /\ prevTickets = <<>> /\ lastCreated = <<>>
ImportIdle == /\ ipc = "idle" /\ selectedFile = NoFile /\ busy = FALSE /\ errors = <<>>
             /\ successMessage = "" /\ importedList = <<>> /\ beforeNos = {}
             /\ importResult = NoResult
GuardIdle == /\ loggedIn = FALSE /\ currentRole = NoRole /\ pendingLogins = {}
             /\ loginResult = "none"
             /\ currentUrl = "/login" /\ lastNav = NoNav
FitIdle   == fpc = "idle" /\ targetWidth = 0 /\ cols = <<>>
TextIdle  == /\ tpc = "idle" /\ text = <<>> /\ font = "mono" /\ maxWidth = 0
             /\ lines = <<>> /\ clipped = <<>>
BodyIdle  == /\ bpc = "idle" /\ body = <<>> /\ bodyFont = "mono" /\ innerW = 0
             /\ bodyLines = <<>> /\ lineIdx = 0 /\ yy = 0 /\ drawn = <<>>
ShellIdle == /\ exporting = FALSE /\ importedTickets = 0 /\ ticket = FALSE
             /\ loadError = "" /\ adminShown = "" /\ unhandled = 0
             /\ inFlight = <<>> /\ triggered = <<>> /\ settled = <<>>
TwoIdle   == invs = <<>> /\ docs = <<>> /\ blobs = <<>>
BuildIdle == /\ pc = "idle" /\ optLayout = "none" /\ tickets = <<>>
             /\ optFilename = <<>> /\ loadFailed = {} /\ error = "none"
             /\ call = [entry |-> "none", layout |-> "none", filename |-> <<>>]
             /\ assets = [font |-> "none", logo |-> "none", stamp |-> "none"]
             /\ pages = <<>> /\ y = 0 /\ index = 0 /\ footIdx = 0
             /\ delivered = <<>>

FitNext ==
    \/ DoPhase1
    \/ DoPhase2
    \/ DoPhase3

TextNext ==
    \/ DoWrap
    \/ DoClip

BuildNext ==
    \/ TicketPdf
    \/ Create
    \/ LoadFont
    \/ LoadLogo
    \/ LoadStamp
    \/ BeginList
    \/ PlaceRow
    \/ StampFooter
    \/ BeginDetail
    \/ DetailPage
    \/ Save
    \/ SaveFails

TwoNext ==
    \/ CreateOne
    \/ LoadFontOne
    \/ LoadLogoOne
    \/ LoadStampAndBuildOne
    \/ SaveOne

ShellNext ==
    \/ TriggerDownloadAllPdf
    \/ DownloadAllPdfResolves
    \/ DownloadAllPdfRejects
    \/ TriggerDownloadPdf
    \/ DownloadPdfResolves
    \/ DownloadPdfRejects

BodyNext ==
    \/ WrapBody
    \/ DrawBodyLine
    \/ LeaveBodyLoop

CsvNext ==
    \/ DoCsvEscape
    \/ DownloadTickets

LabelNext ==
    \/ DrawLabelValueBlock

StoreNext ==
    \/ InitOnce
    \/ SeedArrives
    \/ SeedFails
    \/ Add
    \/ BulkAdd
    \/ UpdateStatus
    \/ Update
    \/ ClearAll

ImportNext ==
    \/ RunImport
    \/ ImportInitOnce
    \/ ImportCsvSettles

GuardNext ==
    \/ LoginCall
    \/ LoginSettles
    \/ LoginFails
    \/ Logout
    \/ Navigate

InitFit   == FitInit /\ TextIdle /\ BuildIdle /\ TwoIdle /\ ShellIdle /\ BodyIdle /\ CsvIdle /\ LabelIdle /\ StoreIdle /\ ImportIdle /\ GuardIdle
InitText  == TextInit /\ FitIdle /\ BuildIdle /\ TwoIdle /\ ShellIdle /\ BodyIdle /\ CsvIdle /\ LabelIdle /\ StoreIdle /\ ImportIdle /\ GuardIdle
InitBuild == BuildInit /\ FitIdle /\ TextIdle /\ TwoIdle /\ ShellIdle /\ BodyIdle /\ CsvIdle /\ LabelIdle /\ StoreIdle /\ ImportIdle /\ GuardIdle
InitTwo   == TwoInit /\ FitIdle /\ TextIdle /\ BuildIdle /\ ShellIdle /\ BodyIdle /\ CsvIdle /\ LabelIdle /\ StoreIdle /\ ImportIdle /\ GuardIdle
InitShell == ShellInit /\ FitIdle /\ TextIdle /\ BuildIdle /\ TwoIdle /\ BodyIdle /\ CsvIdle /\ LabelIdle /\ StoreIdle /\ ImportIdle /\ GuardIdle
InitBody  == BodyInit /\ FitIdle /\ TextIdle /\ BuildIdle /\ TwoIdle /\ ShellIdle /\ CsvIdle /\ LabelIdle /\ StoreIdle /\ ImportIdle /\ GuardIdle
InitCsv   == CsvInit /\ FitIdle /\ TextIdle /\ BodyIdle /\ ShellIdle /\ TwoIdle /\ BuildIdle /\ LabelIdle /\ StoreIdle /\ ImportIdle /\ GuardIdle
InitLabel == LabelInit /\ CsvIdle /\ FitIdle /\ TextIdle /\ BodyIdle /\ ShellIdle /\ TwoIdle /\ BuildIdle /\ StoreIdle /\ ImportIdle /\ GuardIdle
InitStore == StoreInit /\ CsvIdle /\ LabelIdle /\ FitIdle /\ TextIdle /\ BodyIdle /\ ShellIdle /\ TwoIdle /\ BuildIdle /\ ImportIdle /\ GuardIdle
InitImport == ImportInit /\ CsvIdle /\ LabelIdle /\ FitIdle /\ TextIdle /\ BodyIdle /\ ShellIdle /\ TwoIdle /\ BuildIdle /\ GuardIdle
InitGuard == GuardInit /\ CsvIdle /\ LabelIdle /\ StoreIdle /\ ImportIdle /\ FitIdle /\ TextIdle /\ BodyIdle /\ ShellIdle /\ TwoIdle /\ BuildIdle

SpecFit   == InitFit /\ [][FitNext]_vars
SpecText  == InitText /\ [][TextNext]_vars
SpecBuild == InitBuild /\ [][BuildNext]_vars
SpecTwo   == InitTwo /\ [][TwoNext]_vars
SpecShell == InitShell /\ [][ShellNext]_vars
SpecBody  == InitBody /\ [][BodyNext]_vars
SpecCsv   == InitCsv /\ [][CsvNext]_vars
SpecLabel == InitLabel /\ [][LabelNext]_vars
SpecStore == InitStore /\ [][StoreNext]_vars
SpecImport == InitImport /\ [][ImportNext]_vars
SpecGuard == InitGuard /\ [][GuardNext]_vars

(***************************************************************************)
(* Column Layout Engine: properties                                        *)
(***************************************************************************)

RECURSIVE SumMins(_)
SumMins(cs) == IF cs = <<>> THEN 0 ELSE mins(Head(cs).key) + SumMins(Tail(cs))

\* the sum of the documented column minimums (442 units)
MinSum == SumMins(colsBase)

Others(cs) == {i \in 1..Len(cs) : cs[i].key # "subject"}

\* C1: for every target width (integer or fractional) that is at least the
\* sum of the column minimums, the widths fitColumnsToWidth returns for the
\* seven base columns sum to the target exactly.
C1_ColumnSum ==
    (fpc = "done" /\ targetWidth >= MinSum) => SumW(cols) = targetWidth

\* a fractional target below the base sum for which phase 2 shrank the
\* other columns, and the returned widths sum to it
C1_Witness ==
    /\ fpc = "done"
    /\ targetWidth >= MinSum
    /\ targetWidth % Unit # 0
    /\ \E i \in Others(cols) : cols[i].w < colsBase[i].w
    /\ SumW(cols) = targetWidth

\* C2: for every target width that is at least the sum of the minimums, no
\* returned column is narrower than its documented minimum (subject 110).
C2_MinimumsKept ==
    (fpc = "done" /\ targetWidth >= MinSum) =>
        \A i \in 1..Len(cols) : cols[i].w >= mins(cols[i].key)

\* C3: for a target width below the sum of the minimums, every column is
\* returned exactly at its documented minimum.
C3_ClampedAtMinimums ==
    (fpc = "done" /\ targetWidth < MinSum) =>
        \A i \in 1..Len(cols) : cols[i].w = mins(cols[i].key)

\* C4: a step makes a column other than subject narrower than its base width
\* only when the subject column is already down at its documented minimum
\* (110).
C4_SubjectFirst ==
    [][ (\E i \in Others(cols) : /\ cols[i].w >= colsBase[i].w
                                 /\ cols'[i].w < colsBase[i].w)
        => cols[FindSubject(cols)].w <= mins("subject") ]_vars

(***************************************************************************)
(* Text Layout Engine: properties                                          *)
(***************************************************************************)

\* the characters of a string
CharsOf(s) == {s[i] : i \in 1..Len(s)}

\* the budget is at least the width of the widest character of the input
BudgetHoldsEveryChar ==
    \A ch \in CharsOf(StringOf(text)) : GlyphW(font, ch) <= maxWidth

\* the budget is at least the width of the ellipsis glyph
BudgetHoldsEllipsis == GlyphW(font, Ellipsis) <= maxWidth

InputFits == widthOfTextAtSize(font, StringOf(text)) <= maxWidth

\* C5: for every input and every budget that is at least the width of the
\* widest character of the input, wrapText returns at least one line and
\* every returned line is at most as wide as the budget.
C5_WrapFits ==
    (tpc = "wrapped" /\ BudgetHoldsEveryChar) =>
        /\ Len(lines) >= 1
        /\ \A i \in 1..Len(lines) : widthOfTextAtSize(font, lines[i]) <= maxWidth

\* a paragraph without line breaks that was broken by width into several
\* lines, one of them holding several characters
C5_Witness ==
    /\ tpc = "wrapped"
    /\ BudgetHoldsEveryChar
    /\ LF \notin CharsOf(StringOf(text))
    /\ Len(lines) >= 2
    /\ \E i \in 1..Len(lines) : Len(lines[i]) >= 2
    /\ \A i \in 1..Len(lines) : widthOfTextAtSize(font, lines[i]) <= maxWidth

\* C6: for every string and every budget that is at least the width of the
\* ellipsis, clipToWidth returns a string at most as wide as the budget, and
\* an input that already fits is returned unchanged.
C6_ClipFits ==
    (tpc = "clipped" /\ BudgetHoldsEllipsis) =>
        /\ widthOfTextAtSize(font, clipped) <= maxWidth
        /\ InputFits => clipped = StringOf(text)

\* an input that does not fit, clipped to a non-empty proper prefix and the
\* ellipsis
C6_Witness ==
    /\ tpc = "clipped"
    /\ BudgetHoldsEllipsis
    /\ ~InputFits
    /\ Len(clipped) >= 2
    /\ clipped[Len(clipped)] = Ellipsis
    /\ widthOfTextAtSize(font, clipped) <= maxWidth

\* prefix(k) + ellipsis
WithEllipsis(k) == Append(SubSeq(StringOf(text), 1, k), Ellipsis)

\* C7: when the input does not fit (and the ellipsis does), clipToWidth
\* returns prefix(k) + ellipsis for the longest k such that it fits:
\* prefix(k) + ellipsis fits, and prefix(k+1) + ellipsis does not when k is
\* less than the input's length.
C7_LongestPrefix ==
    (tpc = "clipped" /\ BudgetHoldsEllipsis /\ ~InputFits) =>
        LET k == Len(clipped) - 1 IN
        /\ k \in 0..Len(StringOf(text))
        /\ clipped = WithEllipsis(k)
        /\ widthOfTextAtSize(font, WithEllipsis(k)) <= maxWidth
        /\ k < Len(StringOf(text)) =>
              widthOfTextAtSize(font, WithEllipsis(k + 1)) > maxWidth

\* the search ended strictly inside the input: two characters kept, the
\* third would not fit
C7_Witness ==
    /\ tpc = "clipped"
    /\ BudgetHoldsEllipsis
    /\ ~InputFits
    /\ Len(clipped) = 3
    /\ Len(StringOf(text)) >= 4
    /\ clipped = WithEllipsis(2)
    /\ widthOfTextAtSize(font, WithEllipsis(3)) > maxWidth

(***************************************************************************)
(* Pagination and footers: properties                                      *)
(***************************************************************************)

\* all pages of the document exist (the row loop / the detail loop is over)
Paginated == pc \in {"footers", "save", "done"}

\* the document is complete (footers stamped)
Finished == pc \in {"save", "done"}

\* ceil(a / b)
CeilDiv(a, b) == (a + b - 1) \div b

\* C8: in list mode, R records give ceil(R / 36) pages for R >= 1 and one
\* page for R = 0; each page but the last holds 36 rows, so no trailing
\* empty page exists.
C8_ListPageCount ==
    (Paginated /\ LayoutOf(optLayout) = "list") =>
        /\ Len(pages) = IF Len(tickets) = 0 THEN 1 ELSE CeilDiv(Len(tickets), 36)
        /\ \A i \in 1..Len(pages) :
              Len(pages[i].rows) = IF i < Len(pages) THEN 36
                                   ELSE Len(tickets) - 36 * (Len(pages) - 1)

\* 72 records: exactly two full pages
C8_Witness ==
    /\ pc = "done"
    /\ LayoutOf(optLayout) = "list"
    /\ Len(tickets) = 72
    /\ Len(pages) = 2
    /\ Len(pages[2].rows) = 36

\* C9: in detail mode the document has exactly one page per record, the
\* i-th page showing the i-th record; no record, no page.
C9_DetailPageCount ==
    (Finished /\ LayoutOf(optLayout) = "detail") =>
        /\ Len(pages) = Len(tickets)
        /\ \A i \in 1..Len(pages) : pages[i].rows = <<tickets[i]>>

\* a detail document of several records
C9_Witness ==
    /\ pc = "done"
    /\ LayoutOf(optLayout) = "detail"
    /\ Len(tickets) >= 3
    /\ Len(pages) = Len(tickets)

\* C10: in every finished document each page bears exactly one footer, and
\* the footer of the i-th page reads page i / N, N the number of pages.
C10_Footers ==
    Finished =>
        \A i \in 1..Len(pages) :
            pages[i].footers = <<[index |-> i, total |-> Len(pages)]>>

\* a finished list document of three pages, each with its footer
C10_Witness ==
    /\ pc = "done"
    /\ LayoutOf(optLayout) = "list"
    /\ Len(pages) = 3
    /\ \A i \in 1..3 : pages[i].footers = <<[index |-> i, total |-> 3]>>

\* C11 as stated: a list document of 12 records has 2 pages, with the
\* footers page 1 / 2 and page 2 / 2.
C11_ScenarioATwoPages ==
    (Finished /\ LayoutOf(optLayout) = "list" /\ Len(tickets) = 12) =>
        /\ Len(pages) = 2
        /\ pages[1].footers = <<[index |-> 1, total |-> 2]>>
        /\ pages[2].footers = <<[index |-> 2, total |-> 2]>>

\* C11: a list document of 12 records has 1 page (a page holds 36 rows),
\* holding the 12 rows, with the footer page 1 / 1.
C11_ScenarioAOnePage ==
    (Finished /\ LayoutOf(optLayout) = "list" /\ Len(tickets) = 12) =>
        /\ Len(pages) = 1
        /\ Len(pages[1].rows) = 12
        /\ pages[1].footers = <<[index |-> 1, total |-> 1]>>

\* the finished list document of 12 records
C11_Witness ==
    /\ pc = "done"
    /\ LayoutOf(optLayout) = "list"
    /\ Len(tickets) = 12
    /\ Len(pages) = 1
    /\ pages[1].footers = <<[index |-> 1, total |-> 1]>>

\* some page of the document bears a footer
SomeFooter == \E i \in 1..Len(pages) : pages[i].footers # <<>>

\* every page of the document bears a footer
EveryFooter == \A i \in 1..Len(pages) : pages[i].footers # <<>>

\* the phases of a build, in order
Phase(p) ==
    CASE p \in {"ticket", "create", "font", "logo", "stamp", "build"} -> 0
      [] p \in {"rows", "detail"}                            -> 1
      [] p = "footers"                                       -> 2
      [] OTHER                                               -> 3

\* C12 as stated: in list and detail mode alike, once a footer has been
\* stamped on any page no further page is added to the document.
C12_NoPageAfterFooter ==
    [][SomeFooter => Len(pages') = Len(pages)]_vars

\* C12: the position of a build never moves back, and serialization starts
\* only after every page bears its footer; in list mode no page is added once
\* a footer has been stamped, while in detail mode every page is stamped as
\* it is added, before the next page is added.
C12_Phases ==
    /\ [][Phase(pc') >= Phase(pc)]_vars
    /\ [](Phase(pc) = 3 => EveryFooter)
    /\ [][(LayoutOf(optLayout) = "list" /\ SomeFooter)
            => Len(pages') = Len(pages)]_vars
    /\ [](LayoutOf(optLayout) = "detail" => EveryFooter)

\* list mode: the footer loop under way on a document of several pages
C12_Witness ==
    /\ pc = "footers"
    /\ LayoutOf(optLayout) = "list"
    /\ Len(pages) >= 2
    /\ footIdx = 1
    /\ pages[1].footers # <<>>
    /\ pages[2].footers = <<>>

(***************************************************************************)
(* Asset failures, file names, the single-ticket entry, failed saves       *)
(***************************************************************************)

\* a page without its images
Plain(p) == [kind |-> p.kind, rows |-> p.rows, footers |-> p.footers]

\* the pages a document of the records ts has when every asset is available,
\* without their images: 36 rows to a list page, one record to a detail page
ExpectedPages(ts, layout) ==
    IF layout = "list"
    THEN LET n == IF Len(ts) = 0 THEN 1 ELSE CeilDiv(Len(ts), 36)
         IN  [i \in 1..n |->
                 [kind    |-> "list",
                  rows    |-> SubSeq(ts, 36 * (i - 1) + 1, Min(36 * i, Len(ts))),
                  footers |-> <<[index |-> i, total |-> n]>>]]
    ELSE [i \in 1..Len(ts) |->
             [kind    |-> "detail",
              rows    |-> <<ts[i]>>,
              footers |-> <<[index |-> i, total |-> Len(ts)]>>]]

C14_Filenames ==
    (pc = "done" /\ call.filename = NoFilename) =>
        delivered[1].filename =
            IF LayoutOf(optLayout) = "list" THEN <<"tickets", "date", "list">>
            ELSE IF Len(tickets) = 1
                 THEN <<"ticket", ToString(tickets[1]), "date">>
                 ELSE <<"tickets", "date", "detail">>

\* C15: downloadTicketPdf builds a detail document of exactly one page,
\* showing its ticket, whatever layout the caller's options name.
C15_SingleTicketIsDetail ==
    (call.entry = "downloadTicketPdf" /\ pc \in {"save", "done", "failed"}) =>
        /\ LayoutOf(optLayout) = "detail"
        /\ Len(pages) = 1
        /\ pages[1].kind = "detail"
        /\ pages[1].rows = tickets
        /\ (pc = "done" => delivered[1].pages = pages)

\* downloadTicketPdf called with layout: 'list' has delivered a detail page
C15_Witness ==
    /\ call.entry = "downloadTicketPdf"
    /\ call.layout = "list"
    /\ pc = "done"
    /\ Len(delivered[1].pages) = 1
    /\ delivered[1].pages[1].kind = "detail"

\* C16: when pdfDoc.save() fails the invocation ends with that failure
\* raised to its caller, nothing has been handed to downloadBlob, and the
\* invocation takes no further step (no retry).
C16_SaveFailure ==
    /\ [](pc = "failed" => (error = "save" /\ delivered = <<>>))
    /\ [][pc # "failed"]_vars

\* a complete document whose serialization failed
C16_Witness ==
    /\ pc = "failed"
    /\ error = "save"
    /\ Len(pages) >= 2
    /\ EveryFooter
    /\ delivered = <<>>

(***************************************************************************)
(* Two invocations in flight: properties                                   *)
(***************************************************************************)

\* what invocation k delivered
BlobsOf(k) == {j \in 1..Len(blobs) : blobs[j].by = k}

\* C17: however two invocations interleave at their suspension points, each
\* works on a document of its own, and a completed invocation has delivered
\* exactly one blob whose pages, footers, images and file name are those of
\* the invocation run alone: the pages of its own records only.
C17_Isolation ==
    /\ \A k \in Invocations, m \in Invocations :
          (k # m /\ invs[k].doc # 0) => invs[k].doc # invs[m].doc
    /\ \A k \in Invocations :
          invs[k].pc = "done" =>
              /\ Cardinality(BlobsOf(k)) = 1
              /\ \A j \in BlobsOf(k) :
                    /\ [i \in 1..Len(blobs[j].pages) |-> Plain(blobs[j].pages[i])]
                          = ExpectedPages(invs[k].tickets, LayoutOf(invs[k].layout))
                    /\ \A i \in 1..Len(blobs[j].pages) :
                          blobs[j].pages[i].images =
                              {w \in {"logo", "stamp"} : invs[k].assets[w] = "image"}
                    /\ blobs[j].filename =
                          FilenameFor(invs[k].filename, invs[k].layout)

\* both invocations have delivered, the one that created its document first
\* delivering last, with different assets and documents of several pages
C17_Witness ==
    /\ invs[1].pc = "done"
    /\ invs[2].pc = "done"
    /\ invs[1].doc = 1
    /\ blobs[1].by = 2
    /\ blobs[2].by = 1
    /\ invs[1].assets # invs[2].assets
    /\ Len(blobs[1].pages) = 2
    /\ Len(blobs[2].pages) = 37

(***************************************************************************)
(* The export actions of the pages: properties                             *)
(***************************************************************************)

\* C18: each export action has at most one build in flight (a trigger while
\* one is in flight starts no second build), and the busy flag of
\* downloadAllPdf is set exactly while its build is in flight.
C18_BusyFlag ==
    /\ \A a \in ExportActions : inFlight[a] <= 1
    /\ exporting = (inFlight["downloadAllPdf"] = 1)

\* C19: after a failed build the page of the action shows the generic
\* export-failed text, and never the engine's own message.
C19_GenericReport ==
    /\ settled["downloadPdf"] = "failed" => loadError = GenericFailed
    /\ settled["downloadAllPdf"] = "failed" => adminShown = GenericFailed

(***************************************************************************)
(* The body card of a detail page: properties                              *)
(***************************************************************************)

\* the line slots of the card: baselines innerTop, innerTop - 16, ... that
\* are not below innerBottom
Slots == (innerTop - innerBottom) \div (lineH * 100) + 1

\* C20: the body card draws exactly the first min(L, K) lines of
\* wrapText(body), in order and unchanged, one per 16-unit slot from the
\* inner top down, K = 27 being the number of slots; further lines are
\* dropped and the last drawn line bears no marker.
C20_BodyLines ==
    /\ Slots = 27
    /\ bpc = "done" =>
          /\ bodyLines = wrapText(body, bodyFont, innerW)
          /\ Len(drawn) = Min(Len(bodyLines), Slots)
          /\ \A i \in 1..Len(drawn) :
                /\ drawn[i].text = bodyLines[i]
                /\ drawn[i].y = innerTop - (i - 1) * lineH * 100

\* a body of 30 wrapped lines, of which 27 are drawn
C20_Witness ==
    /\ bpc = "done"
    /\ Len(bodyLines) = 30
    /\ Len(drawn) = 27
    /\ drawn[27].text = bodyLines[27]
    /\ bodyLines[28] # <<>>

(***************************************************************************)
(* Delimited-text export: properties                                       *)
(***************************************************************************)

\* the row of ticket t with its fields in the given order of keys
RowInOrder(keys, t) == [c \in 1..Len(keys) |-> CellOf(keys[c], t)]

\* C21 as stated: each record is written with its fields in the order
\* identifier, subject, customer name, assignee, status, priority,
\* created-at, updated-at.
C21_FieldOrderStated ==
    cpc = "exported" =>
        \A k \in 1..Len(csvTickets) :
            csvRows[k + 1] = RowInOrder(<<"no", "subject", "customerName", "assignee",
                                          "status", "priority", "createdAt",
                                          "updatedAt">>, csvTickets[k])

\* C21: each record is written with its fields in the order identifier,
\* created-at, subject, status, priority, assignee, customer name,
\* updated-at, under a header row naming the fields in that order.
C21_FieldOrder ==
    cpc = "exported" =>
        /\ Len(csvRows) = Len(csvTickets) + 1
        /\ csvRows[1] = << <<"no">>, <<"createdAt">>, <<"subject">>, <<"status">>,
                           <<"priority">>, <<"assignee">>, <<"customerName">>,
                           <<"updatedAt">> >>
        /\ \A k \in 1..Len(csvTickets) :
              csvRows[k + 1] = RowInOrder(<<"no", "createdAt", "subject", "status",
                                            "priority", "assignee", "customerName",
                                            "updatedAt">>, csvTickets[k])
        /\ csvContent = toCsv(csvRows)

\* two tickets exported, the second with a subject that needs quoting
C21_Witness ==
    /\ cpc = "exported"
    /\ Len(csvTickets) = 2
    /\ csvRows[2][2] = <<"C">>
    /\ csvRows[3][3] = <<"a", COMMA, QUOTE>>
    /\ csvRows[3][6] = <<"A">>
    /\ csvTickets[2].assignee = <<SP, "A", SP>>

\* halve the doubled quotes of s
RECURSIVE HalveQuotes(_)
HalveQuotes(s) ==
    IF s = <<>> THEN <<>>
    ELSE IF Len(s) >= 2 /\ s[1] = QUOTE /\ s[2] = QUOTE
         THEN <<QUOTE>> \o HalveQuotes(SubSeq(s, 3, Len(s)))
         ELSE <<Head(s)>> \o HalveQuotes(Tail(s))

\* un-escape by the rule of csvEscape: strip the outer quotes of a quoted
\* field and halve the doubled quotes
Unescape(e) ==
    IF Len(e) >= 2 /\ e[1] = QUOTE /\ e[Len(e)] = QUOTE
    THEN HalveQuotes(SubSeq(e, 2, Len(e) - 1))
    ELSE e

\* the number of quotes in s
QuoteCount(s) == Cardinality({i \in 1..Len(s) : s[i] = QUOTE})

\* C22: csvEscape wraps a field in quotes exactly when it holds a quote, a
\* comma, a carriage return or a line feed, doubling every quote inside;
\* any other field comes back unchanged; un-escaping gives the field back.
C22_EscapeRoundTrip ==
    cpc # "input" =>
        LET s == StringOf(field)
            special == \E i \in 1..Len(s) : s[i] \in {QUOTE, COMMA, CR, LF}
        IN  /\ special =>
                  /\ Len(escapedField) = Len(s) + QuoteCount(s) + 2
                  /\ escapedField[1] = QUOTE
                  /\ escapedField[Len(escapedField)] = QUOTE
                  /\ QuoteCount(escapedField) = 2 * QuoteCount(s) + 2
            /\ ~special => escapedField = s
            /\ Unescape(escapedField) = s

\* a field of a quote, a carriage return and a comma
C22_Witness ==
    /\ cpc = "escaped"
    /\ field = <<QUOTE, CR, COMMA, "a">>
    /\ escapedField = <<QUOTE, QUOTE, QUOTE, CR, COMMA, "a", QUOTE>>

(***************************************************************************)
(* wrapText: nothing lost, nothing invented                                *)
(***************************************************************************)

\* the lines joined without a separator
RECURSIVE Concat(_)
Concat(ls) == IF ls = <<>> THEN <<>> ELSE Head(ls) \o Concat(Tail(ls))

\* s without its line breaks: CR LF and LF
RECURSIVE RemoveBreaks(_)
RemoveBreaks(s) ==
    IF s = <<>> THEN <<>>
    ELSE IF Len(s) >= 2 /\ s[1] = CR /\ s[2] = LF THEN RemoveBreaks(SubSeq(s, 3, Len(s)))
    ELSE IF s[1] = LF THEN RemoveBreaks(Tail(s))
    ELSE <<s[1]>> \o RemoveBreaks(Tail(s))

\* the paragraphs of s: the stretches between its line breaks
ParagraphsOf(s) ==
    LET breaks == {i \in 1..Len(s) : s[i] = LF}
        starts == {0} \cup breaks
        endOf(b) == IF \E c \in breaks : c > b
                    THEN CHOOSE c \in breaks : c > b /\ \A e \in breaks : e > b => c <= e
                    ELSE Len(s) + 1
        pieceAt(b) == LET e == endOf(b) IN
                      [j \in 1..(e - b - 1) |->
                          IF s[b + j] = CR /\ b + j + 1 = e /\ e <= Len(s)
                          THEN "dropped" ELSE s[b + j]]
    IN  [k \in 1..Cardinality(starts) |->
            LET b == CHOOSE c \in starts : Cardinality({e \in starts : e < c}) = k - 1
            IN  SelectSeq(pieceAt(b), LAMBDA ch : ch # "dropped")]

\* the lines ls are the paragraphs ps wrapped: an empty paragraph is one empty
\* line, any other paragraph is cut into non-empty lines, each but the last
\* of which cannot take the first character of the next
RECURSIVE WrapsTo(_, _, _, _)
WrapsTo(ps, ls, f, budget) ==
    IF ps = <<>> THEN ls = <<>>
    ELSE IF Head(ps) = <<>>
         THEN ls # <<>> /\ Head(ls) = <<>> /\ WrapsTo(Tail(ps), Tail(ls), f, budget)
         ELSE \E k \in 1..Len(ls) :
                 /\ Concat(SubSeq(ls, 1, k)) = Head(ps)
                 /\ \A i \in 1..k : ls[i] # <<>>
                 /\ \A i \in 1..(k - 1) :
                       widthOfTextAtSize(f, Append(ls[i], ls[i + 1][1])) > budget
                 /\ WrapsTo(Tail(ps), SubSeq(ls, k + 1, Len(ls)), f, budget)

\* C29: the lines of wrapText, joined, are the input without its line
\* breaks; every empty paragraph gives exactly one empty line; within a
\* paragraph every line but the last is maximal.
C29_NothingLost ==
    tpc = "wrapped" =>
        /\ Concat(lines) = RemoveBreaks(StringOf(text))
        /\ WrapsTo(ParagraphsOf(StringOf(text)), lines, font, maxWidth)

\* a paragraph cut into two lines, followed by two empty paragraphs
C29_Witness ==
    /\ tpc = "wrapped"
    /\ text = <<"a", "a", LF, LF>>
    /\ lines = << <<"a">>, <<"a">>, <<>>, <<>> >>

(***************************************************************************)
(* Label / value block: properties                                         *)
(***************************************************************************)

\* C23: whenever the value wraps to more lines than maxLines, the block
\* shows exactly maxLines lines and the last shown line ends with the
\* ellipsis character.
C23_TruncationMarked ==
    (lpc = "done" /\ Len(valueLines) > maxLines) =>
        /\ Len(shownLines) = maxLines
        /\ shownLines # <<>>
        /\ shownLines[Len(shownLines)] # <<>>
        /\ shownLines[Len(shownLines)][Len(shownLines[Len(shownLines)])] = Ellipsis

(***************************************************************************)
(* Ticket store: properties                                                *)
(***************************************************************************)

\* C26: after bulkAdd(inputs) the created tickets are at the front of the
\* list with the ticket of the first input at index 0, then the later
\* inputs, then the previous tickets in their previous order.
C26_FirstInputOnTop ==
    lastKind = "bulkAdd" => storeTickets = lastCreated \o prevTickets

\* C27: once the ticket list has been set or modified, no later completion
\* of an initOnce call replaces it (in the store or in local storage).
C27_InitializedOnce ==
    [][(written /\ pendingFetch' < pendingFetch) =>
          (storeTickets' = storeTickets /\ lsTickets' = lsTickets)]_vars

NosOf(list) == {list[i].no : i \in 1..Len(list)}

UniqueNos(list) ==
    \A i, j \in 1..Len(list) : i # j => list[i].no # list[j].no

\* C30: no two tickets of the store share a number, and every number add or
\* bulkAdd assigns is greater than every number the store held at the call,
\* bulkAdd numbering its inputs consecutively in input order.
C30_UniqueNos ==
    /\ UniqueNos(storeTickets)
    /\ lastKind \in {"add", "bulkAdd"} =>
          \A i \in 1..Len(lastCreated) :
              /\ \A n \in NosOf(prevTickets) : lastCreated[i].no > n
              /\ lastCreated[i].no = lastCreated[1].no + (i - 1)
              /\ \E k \in 1..Len(storeTickets) : storeTickets[k] = lastCreated[i]

C30_Witness ==
    /\ lastKind = "bulkAdd"
    /\ Len(lastCreated) = 2
    /\ NosOf(prevTickets) = {3}
    /\ lastCreated[1].no = 4
    /\ lastCreated[2].no = 5

(***************************************************************************)
(* CSV import: properties                                                  *)
(***************************************************************************)

ValidRows == {r \in FileRows : r[1] # <<>> /\ jsTrim(r[2]) # <<>>
                               /\ r[4] \in {<<>>, <<HIGH>>, <<MID>>, <<LOW>>}}

WellFormed(file) ==
    /\ file.fields = REQUIRED_HEADERS
    /\ file.parseErrors = <<>>
    /\ file.padRows = 0
    /\ \A i \in 1..Len(file.rows) : file.rows[i] \in ValidRows

\* C24: a file whose header row is exactly subject,body,customerName,
\* priority,assignee and whose rows are all valid passes the header check
\* and is accepted with one input per data row, in row order, each carrying
\* the row's customerName value.
C24_WellFormedAccepted ==
    (ipc = "done" /\ importResult # NoResult /\ WellFormed(selectedFile)) =>
        /\ importResult.ok
        /\ Len(importResult.inputs) = Len(selectedFile.rows)
        /\ \A i \in 1..Len(selectedFile.rows) :
              importResult.inputs[i].customerName = jsTrim(selectedFile.rows[i][3])

\* a required column is absent from the header row, whatever its case,
\* padding or byte-order mark
ColumnAbsent(file) ==
    \E k \in 1..Len(REQUIRED_HEADERS) :
        \A i \in 1..Len(file.fields) :
            normalizeHeader(file.fields[i]) # toLowerCase(REQUIRED_HEADERS[k])

Rejectable(file) ==
    \/ file.parseErrors # <<>>
    \/ ColumnAbsent(file)
    \/ RowCount(file) > MAX_ROWS
    \/ \E i \in 1..Len(file.rows) : file.rows[i] \notin ValidRows

\* C25: for a file with a parse error, a missing header, more than 5000
\* rows or an invalid row, runImport ends with importedTickets empty, a
\* non-empty errors list and busy false, and the step that handles the
\* result of importCsv leaves the store's list and local storage as they were.
C25_AllOrNothing ==
    [][(ipc' = "done" /\ Rejectable(selectedFile)) =>
          /\ importedList' = <<>>
          /\ errors' # <<>>
          /\ ~busy'
          /\ storeTickets' = storeTickets
          /\ lsTickets' = lsTickets
          /\ lastCreated' = <<>>]_vars

C25_Witness ==
    /\ ipc = "done"
    /\ selectedFile.fields = REQUIRED_HEADERS
    /\ selectedFile.parseErrors = <<>>
    /\ Len(selectedFile.rows) = 2
    /\ selectedFile.rows[1] \in ValidRows
    /\ selectedFile.rows[2] \notin ValidRows
    /\ importResult # NoResult
    /\ storeTickets = <<SeedTicket(3)>>
    /\ errors # <<>>

(***************************************************************************)
(* Route guard: properties                                                 *)
(***************************************************************************)

\* C28: a navigation to admin/import by a logged-in user whose role is not
\* admin ends in a redirect to /home, and one by a user who is not logged
\* in ends in a redirect to /login.
C28_AdminOnly ==
    lastNav.url = "/admin/import" =>
        /\ (lastNav.loggedIn /\ lastNav.role # "admin") => lastNav.outcome = "/home"
        /\ ~lastNav.loggedIn => lastNav.outcome = "/login"

====
